---- MODULE Spec2Model ----
(***************************************************************************)
(* Job scheduling and dispatch engine of bennettbot.                       *)
(*                                                                         *)
(* The dispatch loop (dispatcher.run / run_once), the job runner           *)
(* (JobDispatcher.do_job and the methods it calls) and the mention watcher *)
(* (MessageChecker.check_messages) are translated from                     *)
(* bennettbot/dispatcher.py, the webhook endpoint from                     *)
(* bennettbot/webserver/github.py.  The job store behind them (the         *)
(* `scheduler` module: schedule_job, reserve_job, mark_job_done,           *)
(* schedule_suppression, get_suppressions, remove_expired_suppressions) is *)
(* imported by these files but is not part of the sources at hand; it is   *)
(* written here from its documented contract (sections 3 and 4.1 of the    *)
(* specification).  The same holds for notify_slack of the `slack` module  *)
(* (section 4.5) and for validate_hmac of the `signatures` module.         *)
(*                                                                         *)
(* Two of the jobs the engine runs are modelled as well: the workflow      *)
(* reporter with its cache file (workspace/workflows/jobs.py) and the tech *)
(* support out-of-office commands (workspace/techsupport/jobs.py).         *)
(***************************************************************************)
EXTENDS Integers, Sequences, FiniteSets, TLC

\* ------------------------------------------------------------------ bounds
MaxTime == 1               \* the clock runs over 0..MaxTime
MaxJobs == 1               \* jobs ever enqueued under DispatchSpec
MaxSuppressions == 1       \* suppression rows held at once under DispatchSpec
StoreMaxJobs == 1          \* jobs ever enqueued under StoreSpec
StoreMaxSuppressions == 2  \* suppression rows held at once under StoreSpec
RunnerMaxJobs == 1         \* jobs ever enqueued under RunnerSpec
CycleMaxJobs == 2          \* jobs ever enqueued under CycleSpec
MaxNotifyAttempts == 2     \* chat_postMessage attempts of one notify_slack call
PoolMaxJobs == 2           \* jobs ever enqueued under PoolSpec
MaxTextLen == 3            \* segments of a message text
MaxMatches == 2            \* messages of one search result
MaxArgLen == 3             \* characters of an argument value
MaxRequests == 2           \* webhook requests handled under WebhookSpec
MaxCycles == 2             \* cycles of do_check (times run_fn answers True)
MaxRuns == 2               \* workflow runs in one answer of the GitHub API

Dispatchers == {"d1", "d2"}     \* concurrent callers of run_once
JobTypes == {"ns2_bad_job", "ns2_unsupported_bad_job"}
\* The job type scheduled under RunnerSpec: its failures are escalated.
RunnerJobTypes == {"ns2_bad_job"}
\* The job types of the dispatcher tests that report in blocks and in code.
FormattedJobTypes == {"test_good_python_job_with_blocks", "test_good_job_with_code"}
DoJobTypes == JobTypes \cup {"ns2_good_job"} \cup FormattedJobTypes
\* A type that config["jobs"] has no entry for.
UnconfiguredTypes == {"ns9_dropped_job"}
SuppressedTypes == {"ns2_bad_job"}  \* the types callers schedule suppressions for
Delays == {0, 1}                \* delay_seconds
Times == 0..MaxTime
ExitCodes == {0, 1, -1}         \* 0, a non-zero exit, the sentinel of run_command
NoJob == 0                      \* reserve_job returning None (ids start at 1)
\* The log directory of a process that has not made one yet.
NoDir == [root |-> "unset", type |-> "unset", timestamp |-> 0]
TS == "TS"                      \* the thread_ts the tests schedule their jobs with
NoThread == "None"              \* thread_ts of a message posted outside a thread

\* The webhook endpoint before any request: n counts the requests handled.
NoRequest ==
    [n |-> 0, project |-> "-", header |-> "-", data |-> "-", status |-> 0,
     posted |-> <<>>]

\* The day the watcher is started on.
FirstDay == 8

\* The mention watcher as do_check is called: about to ask run_fn.  answers
\* are the answers of run_fn so far, k the place in the config of the keyword
\* the for loop is at, searches the search_messages calls made.
NoWatcher ==
    [pc |-> "run_fn", answers |-> <<>>, today |-> FirstDay, check_from |-> 0,
     k |-> 0, searches |-> <<>>]

\* The repositories workflows are reported for.
Locations == {"opensafely-core/airlock", "opensafely/documentation"}

\* A runs request without a "created" parameter; a cache without a timestamp.
NoTimestamp == -1

\* No reporter has been made for the repository: pc tells where its reporter
\* is, cache is self.cache, contents the cache_file_contents of
\* write_cache_to_file, last the latest call of get_latest_conclusions with
\* the "created" of its request, the runs it was answered and its result.
NoReporter ==
    [pc |-> "none", cache |-> <<>>, contents |-> <<>>,
     last |-> [created |-> NoTimestamp, runs |-> <<>>, conclusions |-> <<>>]]

NoReporters == [location \in Locations |-> NoReporter]

\* workflows_cache.json does not exist: load_cache() returns {}.
NoCacheFile == <<>>

\* techsupport_ooo.json does not exist and no command has run: config is the
\* file's dict, today the day of the clock, call the latest command with its
\* arguments and its answer; n changes with every command that is run.
NoOutOfOffice ==
    [config |-> <<>>, today |-> FirstDay,
     call |-> [n |-> 0, op |-> "none", start_date |-> "-", end_date |-> "-",
               answer |-> "-"]]

VARIABLES
    now,            \* the wall clock (scheduler._now())
    jobs,           \* job table: sequence of rows, the id is the index
    suppressions,   \* suppression table: set of rows
    pc,             \* per dispatcher: where it is in run / run_once
    job_id,         \* per dispatcher: the local job_id of run_once
    processes,      \* the job runner processes started, in start order
    started,        \* per dispatcher: the local list `processes` of run_once,
                    \* the jobs it has started a process for in this cycle
    last,           \* history: the latest direct call of the store (StoreSpec)
    enq_suppressed, \* history: ids of the jobs enqueued while their type was
                    \* suppressed (StoreSpec)
    checker,        \* the mention watcher: the message check_messages is at,
                    \* and the reactions and reposts it has made
    run_args,       \* self.run_args of a JobDispatcher, with the argument value
                    \* it was formatted from
    web,            \* the webhook endpoint: the latest request, its response
                    \* and the message it posted
    watcher,        \* the loop of MessageChecker.do_check: where it is, what
                    \* run_fn answered and the searches it has made
    reporters,      \* per repository: its RepoWorkflowReporter
    cache_file,     \* workflows_cache.json: per repository its entry
    ooo             \* techsupport_ooo.json, today, and the latest call of the
                    \* out-of-office commands with its answer

vars == <<now, jobs, suppressions, pc, job_id, processes, started, last,
          enq_suppressed, checker, run_args, web, watcher, reporters,
          cache_file, ooo>>

\* --------------------------------------------------------- job configuration
\* config["jobs"][type], as build_config yields it.
\* run_args_keys are the keys the run_args_template formats in.
job_config(type) ==
    CASE type = "ns2_good_job" ->
            [call_tech_support_on_error |-> TRUE, report_stdout |-> TRUE,
             report_success |-> TRUE, report_format |-> "text",
             run_args_keys |-> {"poem"}]
      [] type = "ns2_bad_job" ->
            [call_tech_support_on_error |-> TRUE, report_stdout |-> FALSE,
             report_success |-> FALSE, report_format |-> "text",
             run_args_keys |-> {"poem"}]
      [] type = "ns2_unsupported_bad_job" ->
            [call_tech_support_on_error |-> FALSE, report_stdout |-> FALSE,
             report_success |-> TRUE, report_format |-> "text",
             run_args_keys |-> {"poem"}]
      [] type = "test_good_python_job_with_blocks" ->
            [call_tech_support_on_error |-> TRUE, report_stdout |-> TRUE,
             report_success |-> TRUE, report_format |-> "blocks",
             run_args_keys |-> {}]
      [] type = "test_good_job_with_code" ->
            [call_tech_support_on_error |-> TRUE, report_stdout |-> TRUE,
             report_success |-> TRUE, report_format |-> "code",
             run_args_keys |-> {}]

\* The keys of config["jobs"].
ConfiguredTypes == DoJobTypes

\* ------------------------------------------------------------ the job store
\* is_suppressed with the start of the window excluded.
is_suppressed_after_start(supps, type, t) ==
    \E s \in supps : s.job_type = type /\ s.start_at < t /\ t <= s.end_at

\* A suppression row covers t when start_at <= t <= end_at.
is_suppressed(supps, type, t) ==
    \E s \in supps : s.job_type = type /\ s.start_at <= t /\ t <= s.end_at

\* eligible_jobs with the suppression check left out.
eligible_jobs_unsuppressed(js, supps, t) ==
    {i \in DOMAIN js : js[i].status = "pending" /\ js[i].scheduled_at <= t}

\* The rows reserve_job may claim at time t: pending, due, type not suppressed.
eligible_jobs(js, supps, t) ==
    {i \in DOMAIN js :
        /\ js[i].status = "pending"
        /\ js[i].scheduled_at <= t
        /\ ~is_suppressed(supps, js[i].type, t)}

\* schedule_job with the delay dropped.
schedule_job_undelayed(js, type, args, channel, thread_ts, is_im, delay, t) ==
    Append(js, [type |-> type, args |-> args, channel |-> channel,
                thread_ts |-> thread_ts, is_im |-> is_im,
                scheduled_at |-> t, status |-> "pending"])

\* schedule_job: insert a pending row with scheduled_at = now + delay_seconds.
schedule_job(js, type, args, channel, thread_ts, is_im, delay, t) ==
    Append(js, [type |-> type, args |-> args, channel |-> channel,
                thread_ts |-> thread_ts, is_im |-> is_im,
                scheduled_at |-> t + delay, status |-> "pending"])

\* reserve_job that also resets the row's scheduled_at.
reserve_job_rescheduling(js, i) ==
    [js EXCEPT ![i].status = "reserved", ![i].scheduled_at = 0]

\* reserve_job: the update made to the row it claims.
reserve_job(js, i) == [js EXCEPT ![i].status = "reserved"]

\* mark_job_done that steps the status on, from done back to pending.
mark_job_done_cycling(js, i) ==
    IF i \in DOMAIN js
    THEN [js EXCEPT ![i].status =
            CASE @ = "pending" -> "pending" [] @ = "reserved" -> "done"
              [] @ = "done" -> "pending"]
    ELSE js

\* mark_job_done that puts the row back in the queue.
mark_job_done_requeueing(js, i) ==
    IF i \in DOMAIN js /\ js[i].status = "reserved"
    THEN [js EXCEPT ![i].status = "pending"]
    ELSE js

\* mark_job_done: reserved -> done; a row in any other status is left as it is.
mark_job_done(js, i) ==
    IF i \in DOMAIN js /\ js[i].status = "reserved"
    THEN [js EXCEPT ![i].status = "done"]
    ELSE js

schedule_suppression(supps, type, start_at, end_at) ==
    supps \cup {[job_type |-> type, start_at |-> start_at, end_at |-> end_at]}

cancel_suppressions(supps, type) == {s \in supps : s.job_type # type}

\* remove_expired_suppressions that also deletes the rows ending now.
remove_expired_suppressions_inclusive(supps, t) == {s \in supps : ~(s.end_at <= t)}

\* remove_expired_suppressions that deletes the rows that have started.
remove_expired_suppressions_started(supps, t) == {s \in supps : ~(s.start_at < t)}

\* remove_expired_suppressions: delete every row with end_at < now.
remove_expired_suppressions(supps, t) == {s \in supps : ~(s.end_at < t)}

\* ------------------------------------------------------------------- Init
Init ==
    /\ now = 0
    /\ jobs = <<>>
    /\ suppressions = {}
    /\ pc = [d \in Dispatchers |-> "run_once"]
    /\ job_id = [d \in Dispatchers |-> NoJob]
    /\ processes = <<>>
    /\ started = [d \in Dispatchers |-> <<>>]
    /\ last = [op |-> "none", id |-> NoJob, arg |-> 0]
    /\ enq_suppressed = {}
    /\ checker = [ts |-> 0, text |-> <<>>, reactions |-> <<>>, posts |-> <<>>,
                  calls |-> <<>>]
    /\ run_args = [value |-> <<>>, line |-> <<>>]
    /\ web = NoRequest
    /\ watcher = NoWatcher
    /\ reporters = NoReporters
    /\ cache_file = NoCacheFile
    /\ ooo = NoOutOfOffice

\* ------------------------------------------------- callers of the scheduler
\* A command handler or the webhook enqueues a job; args are the keys of the
\* arguments it passes.
ScheduleJob(type, args, is_im, delay, max) ==
    /\ Len(jobs) < max
    /\ jobs' = schedule_job(jobs, type, args, "job channel", TS, is_im, delay, now)
    /\ UNCHANGED <<now, suppressions, pc, job_id, processes, last, enq_suppressed, started, checker, run_args, web, watcher, reporters, cache_file, ooo>>

\* A command handler suppresses a job type for a while.
ScheduleSuppression(type, start_at, end_at) ==
    /\ start_at <= end_at
    /\ Cardinality(schedule_suppression(suppressions, type, start_at, end_at))
            <= MaxSuppressions
    /\ suppressions' = schedule_suppression(suppressions, type, start_at, end_at)
    /\ UNCHANGED <<now, jobs, pc, job_id, processes, last, enq_suppressed, started, checker, run_args, web, watcher, reporters, cache_file, ooo>>

\* A command handler cancels the suppressions of a job type.
CancelSuppressions(type) ==
    /\ suppressions' = cancel_suppressions(suppressions, type)
    /\ UNCHANGED <<now, jobs, pc, job_id, processes, last, enq_suppressed, started, checker, run_args, web, watcher, reporters, cache_file, ooo>>

\* Time passes.
Tick ==
    /\ now < MaxTime
    /\ now' = now + 1
    /\ UNCHANGED <<jobs, suppressions, pc, job_id, processes, last, enq_suppressed, started, checker, run_args, web, watcher, reporters, cache_file, ooo>>

\* ------------------------------------------------------- the dispatch loop
\* run_once, lines 38-40: scheduler.remove_expired_suppressions(), then
\* processes = [].
run_once_cleanup(d) ==
    /\ pc[d] = "run_once"
    /\ suppressions' = remove_expired_suppressions(suppressions, now)
    /\ started' = [started EXCEPT ![d] = <<>>]
    /\ pc' = [pc EXCEPT ![d] = "reserve_job"]
    /\ UNCHANGED <<now, jobs, job_id, processes, last, enq_suppressed, checker, run_args, web, watcher, reporters, cache_file, ooo>>

\* run_once, lines 42-44: job_id = scheduler.reserve_job(); if None: break.
\* reserve_job claims one eligible row atomically, or returns None.
run_once_reserve(d) ==
    /\ pc[d] = "reserve_job"
    /\ \/ \E i \in eligible_jobs(jobs, suppressions, now) :
            /\ jobs' = reserve_job(jobs, i)
            /\ job_id' = [job_id EXCEPT ![d] = i]
            /\ pc' = [pc EXCEPT ![d] = "start_job"]
       \/ /\ eligible_jobs(jobs, suppressions, now) = {}
          /\ jobs' = jobs
          /\ job_id' = [job_id EXCEPT ![d] = NoJob]
          /\ pc' = [pc EXCEPT ![d] = "sleep"]
    /\ UNCHANGED <<now, suppressions, processes, last, enq_suppressed, started, checker, run_args, web, watcher, reporters, cache_file, ooo>>

\* run_once that starts one job and leaves the rest to the next cycle.
run_once_loop_once == "sleep"

\* run_once whose loop does not call reserve_job again.
run_once_loop_without_reserve == "start_job"

\* run_once, line 41: `while True` takes the loop back to reserve_job once a
\* job has been started.
run_once_loop == "reserve_job"

\* JobDispatcher.__init__, lines 55-63, run by the dispatcher inside run_once:
\* config["jobs"][self.job["type"]] and run_args_template.format(**escaped_args)
\* raise KeyError for a type without an entry and for a missing argument.
JobDispatcher_init(job) ==
    IF job.type \notin ConfiguredTypes THEN "KeyError"
    ELSE IF ~(job_config(job.type).run_args_keys \subseteq job.args) THEN "KeyError"
    ELSE "ok"

\* The process start_job starts, about to run do_job.
Process(j) ==
    [job |-> j, pc |-> "set_up_cwd", rc |-> "unset", slack_message |-> "unset",
     raised |-> "no", attempts |-> 0, log_dir |-> NoDir, stdout |-> "unset",
     stderr |-> "unset", events |-> <<>>]

\* run_once, lines 45-46: JobDispatcher(slack_client, job_id, config).start_job()
\* starts one process running do_job for the job just reserved, and run_once
\* appends it to its list.  run_once and
\* run catch nothing: an exception of JobDispatcher.__init__ leaves them.
run_once_start_job(d) ==
    /\ pc[d] = "start_job"
    /\ Len(processes) <= Len(jobs)
    /\ IF JobDispatcher_init(jobs[job_id[d]]) = "ok"
       THEN /\ processes' = Append(processes, Process(job_id[d]))
            /\ started' = [started EXCEPT ![d] = Append(@, job_id[d])]
            /\ pc' = [pc EXCEPT ![d] = run_once_loop]
       ELSE /\ processes' = processes
            /\ started' = started
            /\ pc' = [pc EXCEPT ![d] = "raised"]
    /\ UNCHANGED <<now, jobs, suppressions, job_id, last, enq_suppressed, checker, run_args, web, watcher, reporters, cache_file, ooo>>

\* run, line 28: time.sleep(1), then the next cycle.
run_sleep(d) ==
    /\ pc[d] = "sleep"
    /\ pc' = [pc EXCEPT ![d] = "run_once"]
    /\ UNCHANGED <<now, jobs, suppressions, job_id, processes, last, enq_suppressed, started, checker, run_args, web, watcher, reporters, cache_file, ooo>>

\* ---------------------------------------------------------- the job runner
\* self.job: the row of the job a process runs.
Job(i) == jobs[processes[i].job]

at(i, where) == i \in DOMAIN processes /\ processes[i].pc = where

goto(i, where) == [processes EXCEPT ![i].pc = where]

\* An exception leaving do_job ends the process.
raise(i) == [processes EXCEPT ![i].pc = "crashed", ![i].raised = processes[i].pc]

\* do_job that runs the command before it notifies of the start.
do_job_next_running_first(step) ==
    CASE step = "set_up_cwd"     -> "set_up_log_dir"
      [] step = "set_up_log_dir" -> "run_command"
      [] step = "run_command"    -> "notify_start"
      [] step = "notify_start"   -> "mark_job_done"
      [] step = "mark_job_done"  -> "notify_end"
      [] step = "notify_end"     -> "finished"

\* do_job that notifies before it marks the job done.
do_job_next_notifying_first(step) ==
    CASE step = "set_up_cwd"     -> "set_up_log_dir"
      [] step = "set_up_log_dir" -> "notify_start"
      [] step = "notify_start"   -> "run_command"
      [] step = "run_command"    -> "notify_end"
      [] step = "notify_end"     -> "mark_job_done"
      [] step = "mark_job_done"  -> "finished"

\* do_job, lines 75-80: the order of the calls it makes.
do_job_next(step) ==
    CASE step = "set_up_cwd"     -> "set_up_log_dir"
      [] step = "set_up_log_dir" -> "notify_start"
      [] step = "notify_start"   -> "run_command"
      [] step = "run_command"    -> "mark_job_done"
      [] step = "mark_job_done"  -> "notify_end"
      [] step = "notify_end"     -> "finished"

\* set_up_cwd: mkdir of the workspace, and the fabfile refresh; an error
\* raised by them leaves do_job.
do_job_set_up_cwd(i) ==
    /\ at(i, "set_up_cwd")
    /\ processes' \in {goto(i, do_job_next("set_up_cwd")), raise(i)}
    /\ UNCHANGED <<now, jobs, suppressions, pc, job_id, last, enq_suppressed, started, checker, run_args, web, watcher, reporters, cache_file, ooo>>

\* set_up_log_dir, lines 205-208: the path <job type>/<timestamp>, under
\* LOGS_DIR for the process and under HOST_LOGS_DIR for the messages.
job_log_path(root, type, timestamp) ==
    [root |-> root, type |-> type, timestamp |-> timestamp]

\* self.host_log_dir, line 208.
host_log_dir(i) == [processes[i].log_dir EXCEPT !.root = "HOST_LOGS_DIR"]

\* set_up_log_dir: mkdir of the log directory; an error raised by it leaves do_job.
do_job_set_up_log_dir(i) ==
    /\ at(i, "set_up_log_dir")
    /\ processes' \in
        {[processes EXCEPT
            ![i].pc = do_job_next("set_up_log_dir"),
            ![i].log_dir = job_log_path("LOGS_DIR", Job(i).type, now)],
         raise(i)}
    /\ UNCHANGED <<now, jobs, suppressions, pc, job_id, last, enq_suppressed, started, checker, run_args, web, watcher, reporters, cache_file, ooo>>

\* ------------------------------------------------------------ the notifier
\* A message handed to notify_slack (or to the Slack client): its
\* destination (channel and thread), what it says, the job type and the log directory it names, and
\* its format; ok tells whether Slack took it, n the attempts that were made.
Message(to, msg, type, fmt, dir) ==
    [op |-> "notify_slack", to |-> to, thread |-> NoThread, msg |-> msg,
     type |-> type, fmt |-> fmt, dir |-> dir, ok |-> FALSE, n |-> 0]

\* notify_slack stops once `failed` attempts have failed.
notify_slack_gives_up(failed) == failed >= MaxNotifyAttempts

\* notify_slack that lets the error of its last attempt out.
notify_slack_result_raising(i, delivered) ==
    IF delivered THEN "message"
    ELSE IF notify_slack_gives_up(processes[i].attempts + 1) THEN "raise"
    ELSE "retry"

\* One chat_postMessage attempt of a notify_slack call of process i: the
\* message is posted and returned, or the attempt failed and notify_slack
\* tries again, or gives up and returns None.
notify_slack_result(i, delivered) ==
    IF delivered THEN "message"
    ELSE IF notify_slack_gives_up(processes[i].attempts + 1) THEN "None"
    ELSE "retry"

\* notify_slack has failed once more and tries again.
notify_slack_retry(i) == [processes EXCEPT ![i].attempts = @ + 1]

\* notify_slack returns, with result r, to the step where do_job goes on.
notify_slack_return(i, message, r, where) ==
    [processes EXCEPT
        ![i].events = Append(@, [message EXCEPT !.ok = (r = "message"),
                                                !.n = processes[i].attempts + 1]),
        ![i].attempts = 0,
        ![i].pc = where]

\* notify_start that notifies the channel and the thread the job came from.
notify_start_msg_to_job(i) ==
    [Message(Job(i).channel, "about to start", Job(i).type, "text", NoDir)
        EXCEPT !.thread = Job(i).thread_ts]

\* notify_start, lines 123-124: the message names the job type and goes to
\* settings.SLACK_LOGS_CHANNEL, with no thread_ts.
notify_start_msg(i) ==
    Message("logs", "about to start", Job(i).type, "text", NoDir)

\* notify_start: notify_slack of "about to start" to the logs channel.
do_job_notify_start(i) ==
    /\ at(i, "notify_start")
    /\ \E delivered \in BOOLEAN :
        LET r == notify_slack_result(i, delivered)
            message == notify_start_msg(i)
        IN  processes' =
                CASE r = "retry" -> notify_slack_retry(i)
                  [] r = "raise" -> raise(i)
                  [] OTHER -> notify_slack_return(i, message, r,
                                                  do_job_next("notify_start"))
    /\ UNCHANGED <<now, jobs, suppressions, pc, job_id, last, enq_suppressed, started, checker, run_args, web, watcher, reporters, cache_file, ooo>>

\* run_command that lets the exception of subprocess.run out.
run_command_propagating(i, rc, out) ==
    IF rc = -1
    THEN [processes EXCEPT ![i].pc = "crashed", ![i].raised = "run_command",
                           ![i].stdout = "", ![i].stderr = ""]
    ELSE [processes EXCEPT
            ![i].pc = do_job_next("run_command"),
            ![i].rc = rc,
            ![i].stdout = out,
            ![i].stderr = IF rc = 0 THEN "" ELSE "output",
            ![i].events = Append(@, [Message("-", "run_command", Job(i).type,
                                             "-", processes[i].log_dir)
                                     EXCEPT !.op = "run_command", !.ok = TRUE])]

\* run_command, lines 98-118: both artifacts are opened for writing, the
\* command runs with its output redirected to them, and rc is its exit code;
\* when subprocess.run raises, the traceback goes to stderr and rc is -1.
run_command(i, rc, out) ==
    [processes EXCEPT
        ![i].pc = do_job_next("run_command"),
        ![i].rc = rc,
        ![i].stdout = out,
        ![i].stderr = CASE rc = 0 -> "" [] rc = -1 -> "traceback" [] OTHER -> "output",
        ![i].events = Append(@, [Message("-", "run_command", Job(i).type,
                                         "-", processes[i].log_dir)
                                 EXCEPT !.op = "run_command", !.ok = TRUE])]

\* run_command: a command that ran may have written output, in the form its
\* report_format takes, or none, whatever its exit code; a command that could
\* not be started wrote nothing.
do_job_run_command(i) ==
    /\ at(i, "run_command")
    /\ \E rc \in ExitCodes :
        \E out \in IF rc = -1 THEN {""} ELSE {"", "output"} :
            processes' = run_command(i, rc, out)
    /\ UNCHANGED <<now, jobs, suppressions, pc, job_id, last, enq_suppressed, started, checker, run_args, web, watcher, reporters, cache_file, ooo>>

\* do_job, line 79: scheduler.mark_job_done(self.job["id"]).
do_job_mark_job_done(i) ==
    /\ at(i, "mark_job_done")
    /\ jobs' = mark_job_done(jobs, processes[i].job)
    /\ processes' = goto(i, do_job_next("mark_job_done"))
    /\ UNCHANGED <<now, suppressions, pc, job_id, last, enq_suppressed, started, checker, run_args, web, watcher, reporters, cache_file, ooo>>

\* notify_end that takes the sentinel of run_command for a success.
is_error_positive(i) == processes[i].rc > 0

\* notify_end, line 130.
is_error(i) == processes[i].rc # 0

\* notify_end, lines 131-136.
repost_to_tech_support_on_error(i) ==
    job_config(Job(i).type).call_tech_support_on_error /\ ~Job(i).is_im

\* json.load of an artifact: an empty file is not a JSON document.
json_load(content) == IF content = "" THEN "JSONDecodeError" ELSE content

\* notify_end, lines 139-143: the stdout artifact as the report format reads it.
read_stdout(report_format, content) ==
    IF report_format = "blocks" THEN json_load(content) ELSE content

\* notify_end that reports bare success before it looks at report_stdout.
notify_end_success_msg_success_first(i) ==
    LET cfg == job_config(Job(i).type) IN
    IF cfg.report_success
    THEN Message(Job(i).channel, "succeeded", Job(i).type, cfg.report_format, NoDir)
    ELSE IF read_stdout(cfg.report_format, processes[i].stdout) = ""
    THEN Message(Job(i).channel, "No output found", Job(i).type, cfg.report_format, NoDir)
    ELSE Message(Job(i).channel, "stdout", "-", cfg.report_format, NoDir)

\* notify_end, lines 138-147: the message of a job that exited 0 and reports.
notify_end_success_msg(i) ==
    LET cfg == job_config(Job(i).type) IN
    IF cfg.report_stdout
    THEN IF read_stdout(cfg.report_format, processes[i].stdout) = ""
         THEN Message(Job(i).channel, "No output found", Job(i).type,
                      cfg.report_format, NoDir)
         ELSE Message(Job(i).channel, "stdout", "-", cfg.report_format, NoDir)
    ELSE Message(Job(i).channel, "succeeded", Job(i).type, cfg.report_format, NoDir)

\* notify_end that posts the failure message in the job's report format.
notify_end_failure_msg_formatted(i) ==
    Message(Job(i).channel,
            IF repost_to_tech_support_on_error(i)
            THEN "failed, calling tech-support" ELSE "failed",
            Job(i).type, job_config(Job(i).type).report_format, host_log_dir(i))

\* notify_end, lines 151-159 and 166: the message of a job that did not exit
\* 0, and the format it is posted in.
notify_end_failure_msg(i) ==
    Message(Job(i).channel,
            IF repost_to_tech_support_on_error(i)
            THEN "failed, calling tech-support" ELSE "failed",
            Job(i).type, "text", host_log_dir(i))

\* notify_end, lines 137-159: msg.
notify_end_msg(i) ==
    IF ~is_error(i) THEN notify_end_success_msg(i) ELSE notify_end_failure_msg(i)

\* notify_end, lines 137-149: the `return` of a success that is not reported.
notify_end_returns(i) ==
    /\ ~is_error(i)
    /\ ~job_config(Job(i).type).report_stdout
    /\ ~job_config(Job(i).type).report_success

\* notify_end, lines 137-167: build the message and post it with notify_slack,
\* which returns the posted message or, its attempts exhausted, None.  Reading
\* an empty stdout artifact as blocks raises.  A failure that is to be escalated
\* goes on to the repost.
do_job_notify_end(i) ==
    /\ at(i, "notify_end")
    /\ IF notify_end_returns(i)
       THEN processes' = goto(i, do_job_next("notify_end"))
       ELSE IF /\ ~is_error(i)
               /\ job_config(Job(i).type).report_stdout
               /\ read_stdout(job_config(Job(i).type).report_format,
                              processes[i].stdout) = "JSONDecodeError"
       THEN processes' = raise(i)
       ELSE \E delivered \in BOOLEAN :
            LET r == notify_slack_result(i, delivered)
                where == IF is_error(i) /\ repost_to_tech_support_on_error(i)
                         THEN "repost" ELSE do_job_next("notify_end")
            IN  processes' =
                  CASE r = "retry" -> notify_slack_retry(i)
                    [] r = "raise" -> raise(i)
                    [] OTHER ->
                        [notify_slack_return(i,
                                [notify_end_msg(i) EXCEPT !.thread = Job(i).thread_ts],
                                r, where)
                            EXCEPT ![i].slack_message =
                                        IF r = "message" THEN "posted" ELSE "None"]
    /\ UNCHANGED <<now, jobs, suppressions, pc, job_id, last, enq_suppressed, started, checker, run_args, web, watcher, reporters, cache_file, ooo>>

\* notify_end, lines 168-177: chat_getPermalink of the failure message, then
\* chat_postMessage of the permalink to the tech-support channel.  Subscripting
\* slack_message raises when notify_slack gave up and returned None, and the
\* Slack client raises on an API error: nothing catches either.
do_job_notify_end_repost(i) ==
    /\ at(i, "repost")
    /\ \/ /\ processes[i].slack_message = "posted"
          /\ \E ok \in BOOLEAN :
                processes' =
                    [processes EXCEPT
                        ![i].pc = IF ok THEN do_job_next("notify_end") ELSE "crashed",
                        ![i].raised = IF ok THEN @ ELSE "notify_end",
                        ![i].events = Append(@,
                            [Message("tech-support", "permalink", "-", "text", NoDir)
                                EXCEPT !.op = "chat_postMessage", !.ok = ok, !.n = 1])]
       \/ processes' = [processes EXCEPT ![i].pc = "crashed",
                                         ![i].raised = "notify_end"]
    /\ UNCHANGED <<now, jobs, suppressions, pc, job_id, last, enq_suppressed, started, checker, run_args, web, watcher, reporters, cache_file, ooo>>

\* ------------------------------------------------- direct calls of the store
\* Each call is atomic and leaves a record of itself in `last`.
call_schedule_job(type, delay) ==
    /\ Len(jobs) < StoreMaxJobs
    /\ jobs' = schedule_job(jobs, type, job_config(type).run_args_keys,
                             "job channel", TS, FALSE, delay, now)
    /\ last' = [op |-> "schedule_job", id |-> Len(jobs) + 1, arg |-> delay]
    /\ enq_suppressed' = IF is_suppressed(suppressions, type, now)
                         THEN enq_suppressed \cup {Len(jobs) + 1}
                         ELSE enq_suppressed
    /\ UNCHANGED <<now, suppressions, pc, job_id, processes, started, checker, run_args, web, watcher, reporters, cache_file, ooo>>

call_reserve_job ==
    /\ \/ \E i \in eligible_jobs(jobs, suppressions, now) :
            /\ jobs' = reserve_job(jobs, i)
            /\ last' = [op |-> "reserve_job", id |-> i, arg |-> 0]
       \/ /\ eligible_jobs(jobs, suppressions, now) = {}
          /\ jobs' = jobs
          /\ last' = [op |-> "reserve_job", id |-> NoJob, arg |-> 0]
    /\ UNCHANGED <<now, suppressions, pc, job_id, processes, enq_suppressed, started, checker, run_args, web, watcher, reporters, cache_file, ooo>>

\* The runner's call, for a job that has been reserved; arg tells whether
\* the job was done already.
call_mark_job_done(i) ==
    /\ jobs[i].status # "pending"
    /\ jobs' = mark_job_done(jobs, i)
    /\ last' = [op |-> "mark_job_done", id |-> i,
                arg |-> IF jobs[i].status = "done" THEN 1 ELSE 0]
    /\ UNCHANGED <<now, suppressions, pc, job_id, processes, enq_suppressed, started, checker, run_args, web, watcher, reporters, cache_file, ooo>>

call_schedule_suppression(type, start_at, end_at) ==
    /\ start_at <= end_at
    /\ Cardinality(schedule_suppression(suppressions, type, start_at, end_at))
            <= StoreMaxSuppressions
    /\ suppressions' = schedule_suppression(suppressions, type, start_at, end_at)
    /\ last' = [op |-> "schedule_suppression", id |-> NoJob, arg |-> 0]
    /\ UNCHANGED <<now, jobs, pc, job_id, processes, enq_suppressed, started, checker, run_args, web, watcher, reporters, cache_file, ooo>>

call_cancel_suppressions(type) ==
    /\ suppressions' = cancel_suppressions(suppressions, type)
    /\ last' = [op |-> "cancel_suppressions", id |-> NoJob, arg |-> 0]
    /\ UNCHANGED <<now, jobs, pc, job_id, processes, enq_suppressed, started, checker, run_args, web, watcher, reporters, cache_file, ooo>>

\* arg is the number of rows deleted.
call_remove_expired_suppressions ==
    /\ suppressions' = remove_expired_suppressions(suppressions, now)
    /\ last' = [op |-> "remove_expired_suppressions", id |-> NoJob,
                arg |-> Cardinality(suppressions \ suppressions')]
    /\ UNCHANGED <<now, jobs, pc, job_id, processes, enq_suppressed, started, checker, run_args, web, watcher, reporters, cache_file, ooo>>

StoreTick ==
    /\ now < MaxTime
    /\ now' = now + 1
    /\ last' = [op |-> "tick", id |-> NoJob, arg |-> 0]
    /\ UNCHANGED <<jobs, suppressions, pc, job_id, processes, enq_suppressed, started, checker, run_args, web, watcher, reporters, cache_file, ooo>>

\* ----------------------------------------------------------- specifications
\* The store under direct calls by any number of callers.
StoreNext ==
    \/ \E type \in JobTypes, delay \in Delays : call_schedule_job(type, delay)
    \/ call_reserve_job
    \/ \E i \in DOMAIN jobs : call_mark_job_done(i)
    \/ \E type \in SuppressedTypes, start_at \in Times, end_at \in Times :
            call_schedule_suppression(type, start_at, end_at)
    \/ \E type \in SuppressedTypes : call_cancel_suppressions(type)
    \/ call_remove_expired_suppressions
    \/ StoreTick

StoreSpec == Init /\ [][StoreNext]_vars

\* The dispatch loops of the concurrent dispatchers over the store, with the
\* callers that schedule jobs and suppressions.
DispatchNext ==
    \/ \E type \in JobTypes, delay \in Delays :
            ScheduleJob(type, job_config(type).run_args_keys, FALSE, delay, MaxJobs)
    \/ \E type \in SuppressedTypes, start_at \in Times, end_at \in Times :
            ScheduleSuppression(type, start_at, end_at)
    \/ \E type \in SuppressedTypes : CancelSuppressions(type)
    \/ Tick
    \/ \E d \in Dispatchers : run_once_cleanup(d)
    \/ \E d \in Dispatchers : run_once_reserve(d)
    \/ \E d \in Dispatchers : run_once_start_job(d)
    \/ \E d \in Dispatchers : run_sleep(d)

DispatchSpec == Init /\ [][DispatchNext]_vars

\* One dispatch loop and the job runners it starts.
RunnerNext ==
    \/ \E type \in RunnerJobTypes :
            ScheduleJob(type, job_config(type).run_args_keys, FALSE, 0,
                        RunnerMaxJobs)
    \/ run_once_cleanup("d1")
    \/ run_once_reserve("d1")
    \/ run_once_start_job("d1")
    \/ run_sleep("d1")
    \/ \E i \in DOMAIN processes : do_job_set_up_cwd(i)
    \/ \E i \in DOMAIN processes : do_job_set_up_log_dir(i)
    \/ \E i \in DOMAIN processes : do_job_notify_start(i)
    \/ \E i \in DOMAIN processes : do_job_run_command(i)
    \/ \E i \in DOMAIN processes : do_job_mark_job_done(i)
    \/ \E i \in DOMAIN processes : do_job_notify_end(i)
    \/ \E i \in DOMAIN processes : do_job_notify_end_repost(i)

RunnerSpec == Init /\ [][RunnerNext]_vars

\* The harness of the dispatcher tests (test_dispatcher.py, lines 86-89 and
\* 521-523): schedule one job, reserve it, and run do_job on it.
test_do_job(type, is_im) ==
    /\ jobs = <<>>
    /\ jobs' = reserve_job(schedule_job(jobs, type, job_config(type).run_args_keys,
                                        "job channel", TS, is_im, 0, now), 1)
    /\ processes' = <<Process(1)>>
    /\ UNCHANGED <<now, suppressions, pc, job_id, last, enq_suppressed, started, checker, run_args, web, watcher, reporters, cache_file, ooo>>

\* do_job that goes on only while the type of its job is not suppressed.
do_job_unless_suppressed(i) ==
    /\ ~is_suppressed(suppressions, jobs[processes[i].job].type, now)
    /\ \/ do_job_set_up_cwd(i)
       \/ do_job_set_up_log_dir(i)
       \/ do_job_notify_start(i)
       \/ do_job_run_command(i)
       \/ do_job_mark_job_done(i)
       \/ do_job_notify_end(i)
       \/ do_job_notify_end_repost(i)

\* The next step of the process running do_job.
do_job(i) ==
    \/ do_job_set_up_cwd(i)
    \/ do_job_set_up_log_dir(i)
    \/ do_job_notify_start(i)
    \/ do_job_run_command(i)
    \/ do_job_mark_job_done(i)
    \/ do_job_notify_end(i)
    \/ do_job_notify_end_repost(i)

\* One job of any configured type, run by do_job while time passes.
JobNext ==
    \/ \E type \in DoJobTypes, is_im \in BOOLEAN : test_do_job(type, is_im)
    \/ do_job(1)
    \/ Tick

JobSpec == Init /\ [][JobNext]_vars

\* The operating system keeps scheduling the process that runs do_job.
JobFairSpec == JobSpec /\ WF_vars(do_job(1))

\* The next step of the dispatcher in run: a step of run_once, or the sleep.
run(d) ==
    \/ run_once_cleanup(d)
    \/ run_once_reserve(d)
    \/ run_once_start_job(d)
    \/ run_sleep(d)

\* One dispatch loop over several jobs, with the callers that schedule jobs
\* and suppressions while it runs.
CycleNext ==
    \/ \E type \in JobTypes :
            ScheduleJob(type, job_config(type).run_args_keys, FALSE, 0, CycleMaxJobs)
    \/ \E type \in SuppressedTypes, start_at \in Times, end_at \in Times :
            ScheduleSuppression(type, start_at, end_at)
    \/ \E type \in SuppressedTypes : CancelSuppressions(type)
    \/ Tick
    \/ run("d1")

CycleSpec == Init /\ [][CycleNext]_vars

\* The dispatcher process keeps running.
CycleFairSpec == CycleSpec /\ WF_vars(run("d1"))

\* One dispatch loop over a store that holds jobs nothing has checked against
\* the job configuration: any type, any arguments.
AnyJobNext ==
    \/ \E type \in JobTypes \cup UnconfiguredTypes, args \in SUBSET {"poem"} :
            ScheduleJob(type, args, FALSE, 0, CycleMaxJobs)
    \/ run("d1")

AnyJobSpec == Init /\ [][AnyJobNext]_vars

\* test_run_once (test_dispatcher.py, lines 42-58), with the job types of the
\* configuration at hand: two expired windows, one for a job that is to run,
\* and a window that is active for the third job; three jobs, due at once.
test_run_once ==
    /\ jobs = <<>> /\ suppressions = {}
    /\ suppressions' =
            LET s1 == schedule_suppression(suppressions, "ns2_good_job", -15, -5)
                s2 == schedule_suppression(s1, "ns2_bad_job", -15, -5)
            IN  schedule_suppression(s2, "ns2_unsupported_bad_job", -5, 5)
    /\ jobs' =
            LET j1 == schedule_job(jobs, "ns2_good_job", {"poem"}, "job channel", TS,
                                   FALSE, 0, now)
                j2 == schedule_job(j1, "ns2_bad_job", {"poem"}, "job channel", TS,
                                   FALSE, 0, now)
            IN  schedule_job(j2, "ns2_unsupported_bad_job", {"poem"}, "job channel",
                             TS, FALSE, 0, now)
    /\ UNCHANGED <<now, pc, job_id, processes, last, enq_suppressed, started, checker, run_args, web, watcher, reporters, cache_file, ooo>>

\* A command handler suppresses a job type while the jobs of the test run,
\* for the window the test uses (line 45).
suppress(type) ==
    /\ jobs # <<>>
    /\ suppressions' = schedule_suppression(suppressions, type, -5, 5)
    /\ UNCHANGED <<now, jobs, pc, job_id, processes, last, enq_suppressed, started, checker, run_args, web, watcher, reporters, cache_file, ooo>>

\* run_once that joins the processes it has started before it goes on.
run_once_joining(d) ==
    /\ \A i \in DOMAIN processes : processes[i].pc \in {"finished", "crashed"}
    /\ \/ run_once_cleanup(d)
       \/ run_once_reserve(d)
       \/ run_once_start_job(d)

\* The next step of one call of run_once, lines 38-48; it has returned when
\* the dispatcher is at "sleep".
run_once(d) ==
    \/ run_once_cleanup(d)
    \/ run_once_reserve(d)
    \/ run_once_start_job(d)

\* The one call of run_once the test makes over its jobs, and the job runners
\* it starts, each running do_job in a process of its own; the clock is frozen,
\* as it is in the tests.
RunOnceNext ==
    \/ test_run_once
    \/ jobs # <<>> /\ run_once("d1")
    \/ \E i \in DOMAIN processes : do_job(i)

RunOnceSpec == Init /\ [][RunOnceNext]_vars

\* The dispatcher process keeps running; nothing is assumed of the runners:
\* a command may hang for ever.
RunOnceFairSpec == RunOnceSpec /\ WF_vars(jobs # <<>> /\ run_once("d1"))

\* The same, with a command handler that suppresses a job type meanwhile.
SuppressNext ==
    \/ test_run_once
    \/ \E type \in SuppressedTypes : suppress(type)
    \/ jobs # <<>> /\ run_once("d1")
    \/ \E i \in DOMAIN processes : do_job(i)

SuppressSpec == Init /\ [][SuppressNext]_vars

\* One dispatch loop and the pool of job runners it has started, for jobs of
\* one type, within one second of the clock.
PoolNext ==
    \/ \E type \in RunnerJobTypes :
            ScheduleJob(type, job_config(type).run_args_keys, FALSE, 0, PoolMaxJobs)
    \/ run("d1")
    \/ \E i \in DOMAIN processes : do_job(i)

PoolSpec == Init /\ [][PoolNext]_vars

\* ------------------------------------------------------ the mention watcher
\* A message text is a sequence of segments, each standing for a piece of the
\* messages of test_message_checker_matched_messages (Slack hands out the
\* angle brackets of running text as &lt; and &gt;, so that "<" and ">" stand
\* only around links):
\*   "K"   the keyword in running text         ("tech-support")
\*   "w"   other words                         ("This is a forwarded message")
\*   "U"   a link that does not hold the keyword ("<https://example.com>")
\*   "UK"  a link that holds the keyword  ("<https://calling/tech-support/test>")
\*   "\n"  a line break
Segments == {"K", "w", "U", "UK", "\n"}
Texts == UNION {[1..n -> Segments] : n \in 0..MaxTextLen}

\* The segment is a link: it opens with "<http" and closes with ">".
IsUrl(segment) == segment \in {"U", "UK"}

\* Where the match of "<http.+>" that starts at segment p ends.  `.+` takes as
\* much as it can and does not cross a line break: the match runs to the last
\* ">" of the line.
match_end(text, p) ==
    LET breaks == {m \in p..Len(text) : text[m] = "\n"}
        line_end == IF breaks = {} THEN Len(text)
                    ELSE (CHOOSE m \in breaks : \A b \in breaks : m <= b) - 1
        closers == {q \in p..line_end : IsUrl(text[q])}
    IN  CHOOSE q \in closers : \A c \in closers : c <= q

\* re.sub(r"<http.+>", "", message["text"]): every match, leftmost first, is
\* taken out and the search goes on after it.
RECURSIVE re_sub_urls(_)
re_sub_urls(text) ==
    LET starts == {p \in DOMAIN text : IsUrl(text[p])}
    IN  IF starts = {} THEN text
        ELSE LET p == CHOOSE m \in starts : \A b \in starts : m <= b
                 q == match_end(text, p)
             IN  SubSeq(text, 1, p - 1)
                     \o re_sub_urls(SubSeq(text, q + 1, Len(text)))

\* keyword in text
keyword_in(text) == \E k \in DOMAIN text : text[k] \in {"K", "UK"}

\* check_messages, lines 268-289: one round of the loop, over the next message
\* of the search result.  ts is the message's place among the messages seen;
\* calls lists the calls made to the Slack client, in order.
check_message(chk, text) ==
    LET ts == chk.ts + 1
    IN  IF ~keyword_in(re_sub_urls(text))
        THEN [chk EXCEPT !.ts = ts, !.text = text]
        ELSE [ts |-> ts, text |-> text,
              reactions |-> Append(chk.reactions, ts),
              posts |-> Append(chk.posts, ts),
              calls |-> chk.calls \o <<[op |-> "reactions_add", ts |-> ts],
                                       [op |-> "chat_getPermalink", ts |-> ts],
                                       [op |-> "notify_slack", ts |-> ts]>>]

\* One round of the loop of check_messages as a step of its own.
check_messages(text) ==
    /\ checker.ts < MaxMatches
    /\ checker' = check_message(checker, text)
    /\ UNCHANGED <<now, jobs, suppressions, pc, job_id, processes, started, last, enq_suppressed, run_args, web, watcher, reporters, cache_file, ooo>>

CheckerNext == \E text \in Texts : check_messages(text)

CheckerSpec == Init /\ [][CheckerNext]_vars

\* The keywords of get_support_config(), in the order of the dict.
Keywords == <<"tech-support", "bennett-admins">>

\* The matches of test_message_checker_matched_messages, in their order.
TestMatches ==
    <<(<<"w", "K">>), (<<"w">>), (<<"w", "UK">>), (<<"w", "K", "w", "UK">>)>>

\* What search_messages returns in the tests: no match, or these four.
SearchResults == {<<>>, TestMatches}

\* check_messages, lines 268-289: the loop over the matches of one search.
RECURSIVE check_all(_, _)
check_all(chk, matches) ==
    IF matches = <<>> THEN chk
    ELSE check_all(check_message(chk, Head(matches)), Tail(matches))

\* The cycles do_check has begun: the times run_fn answered True.
Cycles(answers) == Cardinality({c \in DOMAIN answers : answers[c]})

\* A lookback of one day.
check_from_yesterday(today) == today - 1

\* do_check, lines 242-243: check_from is the date two days before today.
check_from(today) == today - 2

\* do_check, lines 238-243: run_fn is asked; on True the cycle takes the date
\* and enters the for loop, on False do_check returns.
do_check_run_fn(answer) ==
    /\ watcher.pc = "run_fn"
    /\ answer => Cycles(watcher.answers) < MaxCycles
    /\ watcher' =
            IF answer
            THEN [watcher EXCEPT !.answers = Append(@, TRUE),
                                 !.check_from = check_from(watcher.today),
                                 !.k = 1, !.pc = "check_messages"]
            ELSE [watcher EXCEPT !.answers = Append(@, FALSE),
                                 !.pc = "returned"]
    /\ UNCHANGED <<now, jobs, suppressions, pc, job_id, processes, started, last, enq_suppressed, run_args, web, checker, reporters, cache_file, ooo>>

\* do_check, lines 244-245: check_messages(keyword, check_from) for the next
\* keyword of the config: one search, then the loop over its matches.
do_check_check_messages(matches) ==
    /\ watcher.pc = "check_messages"
    /\ watcher' =
            [watcher EXCEPT
                !.searches = Append(@, [keyword |-> Keywords[watcher.k],
                                        after |-> watcher.check_from,
                                        cycle |-> Cycles(watcher.answers),
                                        matches |-> Len(matches)]),
                !.k = IF watcher.k < Len(Keywords) THEN watcher.k + 1 ELSE 0,
                !.pc = IF watcher.k < Len(Keywords) THEN "check_messages"
                       ELSE "sleep"]
    /\ checker' = check_all(checker, matches)
    /\ UNCHANGED <<now, jobs, suppressions, pc, job_id, processes, started, last, enq_suppressed, run_args, web, reporters, cache_file, ooo>>

\* do_check, line 246: time.sleep(delay), then run_fn is asked again.
do_check_sleep ==
    /\ watcher.pc = "sleep"
    /\ watcher' = [watcher EXCEPT !.pc = "run_fn"]
    /\ UNCHANGED <<now, jobs, suppressions, pc, job_id, processes, started, last, enq_suppressed, run_args, web, checker, reporters, cache_file, ooo>>

\* Midnight passes while the watcher runs.
watcher_midnight ==
    /\ watcher.pc # "returned"
    /\ watcher.today < FirstDay + MaxTime
    /\ watcher' = [watcher EXCEPT !.today = @ + 1]
    /\ UNCHANGED <<now, jobs, suppressions, pc, job_id, processes, started, last, enq_suppressed, run_args, web, checker, reporters, cache_file, ooo>>

WatcherNext ==
    \/ \E answer \in BOOLEAN : do_check_run_fn(answer)
    \/ \E matches \in SearchResults : do_check_check_messages(matches)
    \/ do_check_sleep
    \/ watcher_midnight

WatcherSpec == Init /\ [][WatcherNext]_vars

\* ------------------------------------------------- the workflow reporter
\* The ids of the workflows of a repository after remove_ignored_workflows
\* (self.workflow_ids), and the id of a workflow that is ignored.
workflow_ids(location) == {1, 2}
IgnoredId == 3

\* str(workflow_id): the cache has the ids as strings.
str(workflow_id) ==
    CASE workflow_id = 1 -> "1" [] workflow_id = 2 -> "2" [] workflow_id = 3 -> "3"

\* The runs the API may return: of a known or an ignored workflow, concluded
\* with success or failure or still in progress.  conclusion "None" is JSON null.
Runs ==
    [workflow_id : {1, 2, IgnoredId},
     run : {[status |-> "completed", conclusion |-> "success"],
            [status |-> "completed", conclusion |-> "failure"],
            [status |-> "in_progress", conclusion |-> "None"]}]

RunLists == UNION {[1..n -> Runs] : n \in 0..MaxRuns}

\* An answer with a successful run of every known workflow, and an empty one.
TestRuns ==
    {<<>>,
     <<[workflow_id |-> 1, run |-> [status |-> "completed", conclusion |-> "success"]],
       [workflow_id |-> 2, run |-> [status |-> "completed", conclusion |-> "success"]]>>}

\* load_cache: {} when the file does not exist, else what it holds.
load_cache == cache_file

\* dict.get(key, default)
get(dict, key, default) == IF key \in DOMAIN dict THEN dict[key] ELSE default

\* list(dict.values()), in the order of the keys
values(dict) ==
    LET keys == SelectSeq(<<"1", "2", "3">>, LAMBDA k : k \in DOMAIN dict)
    IN  [i \in 1..Len(keys) |-> dict[keys[i]]]

\* get_success_rate, in percent: conclusions.count("success") / len(conclusions)
get_success_rate(conclusions) ==
    (100 * Cardinality({k \in DOMAIN conclusions : conclusions[k] = "success"}))
        \div Len(conclusions)

\* last_retrieval_timestamp: self.cache.get("timestamp", None)
last_retrieval_timestamp(cache) == get(cache, "timestamp", NoTimestamp)

\* since_last_retrieval as get_latest_conclusions computes it, and as a
\* reporter would that only asks whether it has a cache.
since_last_retrieval_if_cached(cache) == cache # <<>>

since_last_retrieval(cache) ==
    cache # <<>> /\ get_success_rate(values(cache.conclusions)) = 100

\* get_runs: the "created" parameter of the request (">=" + timestamp), or
\* NoTimestamp when the request has none.
get_runs(cache, since) ==
    IF since /\ last_retrieval_timestamp(cache) # NoTimestamp
    THEN last_retrieval_timestamp(cache) ELSE NoTimestamp

\* get_conclusion_for_run
get_conclusion_for_run(r) ==
    IF r.run.conclusion = "None"
    THEN IF r.run.status = "in_progress" THEN "running" ELSE r.run.status
    ELSE r.run.conclusion

\* find_latest_for_each_workflow: the first run of each known workflow, in
\* the order of the answer; the loop returns once every id is found.
RECURSIVE latest_runs(_, _, _)
latest_runs(all_runs, ids, found_ids) ==
    IF all_runs = <<>> THEN <<>>
    ELSE LET r == Head(all_runs)
             found == IF r.workflow_id \notin found_ids /\ r.workflow_id \in ids
                      THEN found_ids \cup {r.workflow_id} ELSE found_ids
             first == IF found = found_ids THEN <<>> ELSE <<r>>
         IN  IF r.workflow_id \notin found_ids /\ found = ids THEN first
             ELSE first \o latest_runs(Tail(all_runs), ids, found)

find_latest_for_each_workflow(all_runs, ids) ==
    LET latest == latest_runs(all_runs, ids, {})
    IN  [latest_runs |-> latest,
         missing_ids |-> ids \ {latest[i].workflow_id : i \in DOMAIN latest}]

\* fill_in_conclusions_for_missing_ids, as the code has it and as one that
\* forgets the cache.
fill_in_conclusions_as_missing(cache, workflow_id) == "missing"

fill_in_conclusions_for_missing_ids(cache, workflow_id) ==
    get(get(cache, "conclusions", <<>>), str(workflow_id), "missing")

\* The conclusions get_latest_conclusions returns for an answer of the API.
conclusions_of(cache, all_runs, ids) ==
    LET found == find_latest_for_each_workflow(all_runs, ids)
        latest == found.latest_runs
        run_of(id) == latest[CHOOSE i \in DOMAIN latest : latest[i].workflow_id = id]
    IN  [id \in {latest[i].workflow_id : i \in DOMAIN latest} \cup found.missing_ids |->
            IF id \in found.missing_ids
            THEN fill_in_conclusions_for_missing_ids(cache, id)
            ELSE get_conclusion_for_run(run_of(id))]

\* {str(k): v for k, v in conclusions.items()}
str_keys(conclusions) ==
    [k \in {str(id) : id \in DOMAIN conclusions} |->
        conclusions[CHOOSE id \in DOMAIN conclusions : str(id) = k]]

\* RepoWorkflowReporter(location): a process makes a reporter, which loads
\* the repository's entry of the cache file.
RepoWorkflowReporter_init(location) ==
    /\ reporters[location].pc \in {"none", "returned"}
    /\ reporters' = [reporters EXCEPT ![location] =
            [NoReporter EXCEPT !.pc = "ready",
                               !.cache = get(load_cache, location, <<>>)]]
    /\ UNCHANGED <<now, jobs, suppressions, pc, job_id, processes, started, last, enq_suppressed, checker, run_args, web, watcher, cache_file, ooo>>

\* get_latest_conclusions up to its call of write_cache_to_file.
get_latest_conclusions(location, all_runs) ==
    LET self == reporters[location]
        since == since_last_retrieval(self.cache)
        conclusions == conclusions_of(self.cache, all_runs, workflow_ids(location))
    IN  /\ self.pc = "ready"
        /\ reporters' = [reporters EXCEPT ![location] =
                [self EXCEPT !.pc = "load_cache",
                             !.cache = [timestamp |-> now,
                                        conclusions |-> str_keys(conclusions)],
                             !.last = [created |-> get_runs(self.cache, since),
                                       runs |-> all_runs,
                                       conclusions |-> conclusions]]]
        /\ UNCHANGED <<now, jobs, suppressions, pc, job_id, processes, started, last, enq_suppressed, checker, run_args, web, watcher, cache_file, ooo>>

\* write_cache_to_file, first statement: cache_file_contents = load_cache()
write_cache_to_file_load(location) ==
    /\ reporters[location].pc = "load_cache"
    /\ reporters' = [reporters EXCEPT ![location].pc = "write",
                                      ![location].contents = load_cache]
    /\ UNCHANGED <<now, jobs, suppressions, pc, job_id, processes, started, last, enq_suppressed, checker, run_args, web, watcher, cache_file, ooo>>

\* dict[key] = value
set(dict, key, value) ==
    [k \in DOMAIN dict \cup {key} |-> IF k = key THEN value ELSE dict[k]]

\* write_cache_to_file, the rest: the entry is set in the copy and the copy
\* written over the file; get_latest_conclusions returns.
write_cache_to_file_write(location) ==
    LET self == reporters[location]
    IN  /\ self.pc = "write"
        /\ cache_file' = set(self.contents, location, self.cache)
        /\ reporters' = [reporters EXCEPT ![location].pc = "returned",
                                          ![location].contents = <<>>]
        /\ UNCHANGED <<now, jobs, suppressions, pc, job_id, processes, started, last, enq_suppressed, checker, run_args, web, watcher, ooo>>

\* One reporter at a time, for one repository, with every answer of the API.
ReporterLocation == "opensafely-core/airlock"

ReporterNext ==
    \/ Tick
    \/ RepoWorkflowReporter_init(ReporterLocation)
    \/ \E all_runs \in RunLists : get_latest_conclusions(ReporterLocation, all_runs)
    \/ write_cache_to_file_load(ReporterLocation)
    \/ write_cache_to_file_write(ReporterLocation)

ReporterSpec == Init /\ [][ReporterNext]_vars

\* Reporters of every repository, each in its own process.
CacheFileNext ==
    \/ Tick
    \/ \E location \in Locations : RepoWorkflowReporter_init(location)
    \/ \E location \in Locations, all_runs \in TestRuns :
            get_latest_conclusions(location, all_runs)
    \/ \E location \in Locations : write_cache_to_file_load(location)
    \/ \E location \in Locations : write_cache_to_file_write(location)

CacheFileSpec == Init /\ [][CacheFileNext]_vars

\* ------------------------------------------------ tech support out of office
\* The date strings a command may be given: ISO dates around FirstDay, and
\* one that date.fromisoformat rejects.
isoformat == <<"2024-10-07", "2024-10-08", "2024-10-09", "2024-10-10", "2024-10-11">>
DateStrings == {isoformat[i] : i \in DOMAIN isoformat} \cup {"tomorrow"}

\* convert_date: date.fromisoformat, as a day number; ValueError otherwise.
is_date(date_string) == \E i \in DOMAIN isoformat : isoformat[i] = date_string

convert_date(date_string) ==
    FirstDay - 2 + CHOOSE i \in DOMAIN isoformat : isoformat[i] = date_string

\* today() at the k-th time a call reads it, when midnight passes after the
\* call has read it `midnight` times.
today(k, midnight) == IF k > midnight THEN ooo.today + 1 ELSE ooo.today

\* When midnight may pass during a call that reads the clock n times (n: not
\* during the call).
Midnights(n) == IF ooo.today < FirstDay + MaxTime THEN 0..n ELSE {n}

\* get_dates_from_config: <<>> stands for (None, None).
get_dates_from_config ==
    IF ooo.config = <<>> THEN <<>>
    ELSE [start |-> convert_date(ooo.config.start),
          end |-> convert_date(ooo.config.end)]

\* "end < today()" of out_of_office_on, and the test that also refuses a
\* range ending today.
ends_today_or_before(end, day) == end <= day

ends_in_the_past(end, day) == end < day

\* out_of_office_on
out_of_office_on(start_date, end_date, midnight) ==
    LET call(answer) == [n |-> 1 - ooo.call.n, op |-> "on", start_date |-> start_date,
                         end_date |-> end_date, answer |-> answer]
        start == convert_date(start_date)
        end == convert_date(end_date)
    IN  /\ ooo' =
            IF ~is_date(start_date) \/ ~is_date(end_date)
            THEN [ooo EXCEPT !.call = call("ValueError")]
            ELSE IF start > end
            THEN [ooo EXCEPT !.call = call("Error: start date must be before end date")]
            ELSE IF ends_in_the_past(end, today(1, midnight))
            THEN [ooo EXCEPT !.today = today(1, midnight),
                             !.call = call("Error: Can't set out of office in the past")]
            ELSE [config |-> [start |-> start_date, end |-> end_date],
                  today |-> today(2, midnight),
                  call |-> call(IF start <= today(2, midnight)
                                THEN "Tech support out of office now ON until"
                                ELSE "Tech support out of office scheduled from")]
        /\ UNCHANGED <<now, jobs, suppressions, pc, job_id, processes, started, last, enq_suppressed, checker, run_args, web, watcher, reporters, cache_file>>

\* out_of_office_off
out_of_office_off(midnight) ==
    LET call(answer) == [n |-> 1 - ooo.call.n, op |-> "off", start_date |-> "-",
                         end_date |-> "-", answer |-> answer]
        dates == get_dates_from_config
    IN  /\ ooo' =
            IF dates = <<>>
            THEN [ooo EXCEPT !.config = <<>>,
                             !.call = call("Tech support out of office OFF")]
            ELSE [config |-> <<>>,
                  today |-> today(1, midnight),
                  call |-> call(IF dates.start > today(1, midnight)
                                THEN "Scheduled tech support out of office cancelled"
                                ELSE "Tech support out of office OFF")]
        /\ UNCHANGED <<now, jobs, suppressions, pc, job_id, processes, started, last, enq_suppressed, checker, run_args, web, watcher, reporters, cache_file>>

\* out_of_office_status
out_of_office_status(midnight) ==
    LET call(answer) == [n |-> 1 - ooo.call.n, op |-> "status", start_date |-> "-",
                         end_date |-> "-", answer |-> answer]
        dates == get_dates_from_config
    IN  /\ ooo' =
            IF dates = <<>>
            THEN [ooo EXCEPT !.call = call("Tech support out of office is currently OFF.")]
            ELSE IF today(1, midnight) > dates.end
            THEN [ooo EXCEPT !.today = today(1, midnight),
                             !.call = call("Tech support out of office is currently OFF.")]
            ELSE IF today(2, midnight) < dates.start
            THEN [ooo EXCEPT !.today = today(2, midnight),
                             !.call = call("Tech support out of office is currently OFF. Scheduled out of office is from")]
            ELSE [ooo EXCEPT !.today = today(3, midnight),
                             !.call = call(IF dates.start <= today(3, midnight)
                                              /\ today(3, midnight) <= dates.end
                                           THEN "Tech support out of office is currently ON until"
                                           ELSE "AssertionError")]
        /\ UNCHANGED <<now, jobs, suppressions, pc, job_id, processes, started, last, enq_suppressed, checker, run_args, web, watcher, reporters, cache_file>>

\* Midnight passes while no command runs.
ooo_midnight ==
    /\ ooo.today < FirstDay + MaxTime
    /\ ooo' = [ooo EXCEPT !.today = ooo.today + 1]
    /\ UNCHANGED <<now, jobs, suppressions, pc, job_id, processes, started, last, enq_suppressed, checker, run_args, web, watcher, reporters, cache_file>>

OutOfOfficeNext ==
    \/ \E start_date \in DateStrings, end_date \in DateStrings, midnight \in Midnights(2) :
            out_of_office_on(start_date, end_date, midnight)
    \/ \E midnight \in Midnights(1) : out_of_office_off(midnight)
    \/ \E midnight \in Midnights(3) : out_of_office_status(midnight)
    \/ ooo_midnight

OutOfOfficeSpec == Init /\ [][OutOfOfficeNext]_vars

\* ------------------------------------------------------- the command line
\* Strings are sequences of characters.  The characters argument values are
\* drawn from: a word character, and of each kind of character the shell gives
\* a meaning to, one or two.
SafeChars == {"a"}
UnsafeChars == {" ", ";", "<", "$", "'", "\"", "\\"}
Chars == SafeChars \cup UnsafeChars
ArgValues == UNION {[1..n -> Chars] : n \in 0..MaxArgLen}

\* s.replace("'", "'\"'\"'")
RECURSIVE replace_quotes(_)
replace_quotes(s) ==
    IF s = <<>> THEN <<>>
    ELSE (IF Head(s) = "'" THEN <<"'", "\"", "'", "\"", "'">> ELSE <<Head(s)>>)
             \o replace_quotes(Tail(s))

\* A quoting that puts the value between single quotes as it is.
shlex_quote_unescaped(s) ==
    IF s = <<>> THEN <<"'", "'">>
    ELSE IF \A k \in DOMAIN s : s[k] \in SafeChars THEN s
    ELSE <<"'">> \o s \o <<"'">>

\* shlex.quote(s) of the standard library: '' for the empty string, the string
\* itself when all its characters are safe, and otherwise the string between
\* single quotes with every single quote of it written as '"'"'.
shlex_quote(s) ==
    IF s = <<>> THEN <<"'", "'">>
    ELSE IF \A k \in DOMAIN s : s[k] \in SafeChars THEN s
    ELSE <<"'">> \o replace_quotes(s) \o <<"'">>

\* "cat {poem}".format(poem=escaped)
format_run_args(escaped) == <<"c", "a", "t", " ">> \o escaped

\* JobDispatcher.__init__, lines 62-63, for a job whose args are
\* {"poem": value}: every value is quoted, then the template is filled in.
set_run_args(value) ==
    /\ run_args.line = <<>>
    /\ run_args' = [value |-> value, line |-> format_run_args(shlex_quote(value))]
    /\ UNCHANGED <<now, jobs, suppressions, pc, job_id, processes, started, last, enq_suppressed, checker, web, watcher, reporters, cache_file, ooo>>

QuoteNext == \E value \in ArgValues : set_run_args(value)

QuoteSpec == Init /\ [][QuoteNext]_vars

\* -------------------------------------------------------------- the webhook
\* The projects of the routes the tests post to: "test" has a deploy job and a
\* default channel in dummy_config, "another-name" has neither.
Projects == {"test", "another-name"}

\* f"{project}_deploy"
deploy_job(project) ==
    CASE project = "test" -> "test_deploy"
      [] project = "another-name" -> "another-name_deploy"

\* config["jobs"] and config["default_channel"] of dummy_config.
ConfigJobs == {"test_deploy"}
default_channel == [project \in {"test"} |-> "#some-team"]

\* The types suppressions are scheduled for under WebhookSpec.
WebSuppressedTypes == {"test_deploy", "ns2_bad_job"}

\* The request bodies of the tests, by the names of their constants.
Payload(data) ==
    CASE data = "PAYLOAD_PR_CLOSED" ->
            [action |-> "closed", pull_request |-> "merged",
             workflow_run |-> "absent"]
      [] data = "PAYLOAD_PR_CLOSED_UNMERGED" ->
            [action |-> "closed", pull_request |-> "unmerged",
             workflow_run |-> "absent"]
      [] data = "PAYLOAD_PR_OPENED" ->
            [action |-> "opened", pull_request |-> "empty",
             workflow_run |-> "absent"]
      [] data = "PAYLOAD_ISSUE_OPENED" ->
            [action |-> "opened", pull_request |-> "absent",
             workflow_run |-> "absent"]
      [] data = "PAYLOAD_WORKFLOW_RUN_COMPLETED" ->
            [action |-> "completed", pull_request |-> "absent",
             workflow_run |-> "completed"]
      [] data = "PAYLOAD_WORKFLOW_RUN_IN_PROGRESS" ->
            [action |-> "in_progress", pull_request |-> "absent",
             workflow_run |-> "in_progress"]

Payloads ==
    {"PAYLOAD_PR_CLOSED", "PAYLOAD_PR_CLOSED_UNMERGED", "PAYLOAD_PR_OPENED",
     "PAYLOAD_ISSUE_OPENED", "PAYLOAD_WORKFLOW_RUN_COMPLETED",
     "PAYLOAD_WORKFLOW_RUN_IN_PROGRESS"}

\* The X-Hub-Signature headers of the tests: none, "abcdef", "sha1=abcdef",
\* and compute_signature of the request's own body, written "sha1=hmac".
Headers == {"None", "abcdef", "sha1=abcdef", "sha1=hmac"}

\* header[:5]
header_prefix(header) == IF header = "abcdef" THEN "abcde" ELSE "sha1="

\* header[5:]
header_signature(header) ==
    CASE header = "abcdef" -> "f"
      [] header = "sha1=abcdef" -> "abcdef"
      [] header = "sha1=hmac" -> "hmac"

\* validate_hmac(request.data, secret, signature) raises InvalidHMAC unless
\* the signature is the HMAC of the body under the secret.
validate_hmac(signature) == IF signature = "hmac" THEN "ok" ELSE "InvalidHMAC"

\* verify_signature that stops at the prefix check.
verify_signature_prefix_only(header) ==
    IF header = "None" THEN 403
    ELSE IF header_prefix(header) # "sha1=" THEN 403
    ELSE 200

\* verify_signature: 403 where it aborts, 200 where it returns.
verify_signature(header) ==
    IF header = "None" THEN 403
    ELSE IF header_prefix(header) # "sha1=" THEN 403
    ELSE IF validate_hmac(header_signature(header)) = "InvalidHMAC" THEN 403
    ELSE 200

\* should_deploy that does not look at "merged".
should_deploy_any_close(payload) ==
    IF payload.pull_request \in {"absent", "empty"} THEN FALSE
    ELSE payload.action = "closed"

\* should_deploy: payload.get("pull_request") is falsy for a missing key and
\* for {}.
should_deploy(payload) ==
    IF payload.pull_request \in {"absent", "empty"} THEN FALSE
    ELSE payload.action = "closed" /\ payload.pull_request = "merged"

should_handle_workflow_run(payload) ==
    payload.action = "completed" /\ payload.workflow_run = "completed"

\* scheduler.get_suppressions(): the rows of the suppression table.
get_suppressions(supps) == supps

\* schedule_deploy, lines 82-90: the rows the generator yields; next() takes
\* the first of them in the order get_suppressions returns its rows.
active_suppressions(supps, job, t) ==
    {s \in get_suppressions(supps) : s.start_at < t /\ s.job_type = job}

\* next(..., None) finding no row.
NoSuppression == [job_type |-> "None", start_at |-> 0, end_at |-> 0]

\* delay_seconds of the deploy job.
DeployDelay == 60

\* The response and the effects of one request to /github/<project>/.
response(project, header, data, status, posted) ==
    [n |-> web.n + 1, project |-> project, header |-> header, data |-> data,
     status |-> status, posted |-> posted]

\* handle_github_webhook(project) for a request with the given signature
\* header and body.  posted lists the messages handed to notify_slack.
handle_github_webhook(project, header, data) ==
    /\ web.n < MaxRequests
    /\ IF verify_signature(header) = 403
       THEN /\ web' = response(project, header, data, 403, <<>>)
            /\ jobs' = jobs
       ELSE IF should_deploy(Payload(data))
       THEN \* schedule_deploy
            IF deploy_job(project) \notin ConfigJobs
            THEN /\ web' = response(project, header, data, 400, <<>>)
                 /\ jobs' = jobs
            ELSE LET job == deploy_job(project)
                     channel == default_channel[project]
                     found == active_suppressions(suppressions, job, now)
                 IN  /\ jobs' = schedule_job(jobs, job, {}, channel, "", FALSE,
                                             DeployDelay, now)
                     /\ \E active_suppression \in
                              IF found = {} THEN {NoSuppression} ELSE found :
                            web' = response(project, header, data, 200,
                                IF active_suppression = NoSuppression THEN <<>>
                                ELSE <<[to |-> channel,
                                        text |-> "deploys suppressed until",
                                        end_at |-> active_suppression.end_at]>>)
       ELSE IF should_handle_workflow_run(Payload(data))
       THEN \* handle_workflow_run_completion: config["default_channel"][project]
            \* raises KeyError for an unknown project
            /\ jobs' = jobs
            /\ web' = IF project \notin DOMAIN default_channel
                      THEN response(project, header, data, 500, <<>>)
                      ELSE response(project, header, data, 200,
                               <<[to |-> default_channel[project],
                                  text |-> "Workflow", end_at |-> 0]>>)
       ELSE /\ web' = response(project, header, data, 200, <<>>)
            /\ jobs' = jobs
    /\ UNCHANGED <<now, suppressions, pc, job_id, processes, started, last, enq_suppressed, checker, run_args, watcher, reporters, cache_file, ooo>>

\* run_once, line 38, as the dispatcher runs it every cycle.
RemoveExpiredSuppressions ==
    /\ suppressions' = remove_expired_suppressions(suppressions, now)
    /\ UNCHANGED <<now, jobs, pc, job_id, processes, started, last, enq_suppressed, checker, run_args, web, watcher, reporters, cache_file, ooo>>

WebhookNext ==
    \/ \E project \in Projects, header \in Headers, data \in Payloads :
            handle_github_webhook(project, header, data)
    \/ \E type \in WebSuppressedTypes, start_at \in Times, end_at \in Times :
            ScheduleSuppression(type, start_at, end_at)
    \/ RemoveExpiredSuppressions
    \/ Tick

WebhookSpec == Init /\ [][WebhookNext]_vars

\* ------------------------------------------------------------------ claims
\* Some window of the type covers the present moment.
Covered(type) ==
    \E s \in suppressions :
        s.job_type = type /\ s.start_at <= now /\ now <= s.end_at

\* Job j is pending and due.
PendingDue(j) == jobs[j].status = "pending" /\ jobs[j].scheduled_at <= now

\* The dispatchers that were returned job j and have not started it yet.
holders(j) == {d \in Dispatchers : pc[d] = "start_job" /\ job_id[d] = j}

\* The runner processes started for job j.
runners(j) == {i \in DOMAIN processes : processes[i].job = j}

\* C1: at-most-once dispatch.  A pending job is held by no dispatcher and no
\* runner; a job that has been reserved was returned to exactly one caller
\* and is handed to exactly one runner.  A reserve call returns None exactly
\* when no job is eligible, and otherwise a job no other caller holds.
C1_AtMostOnceDispatch ==
    /\ [](\A j \in DOMAIN jobs :
            Cardinality(holders(j)) + Cardinality(runners(j))
                = IF jobs[j].status = "pending" THEN 0 ELSE 1)
    /\ [][\A d \in Dispatchers :
            (pc[d] = "reserve_job" /\ pc'[d] # "reserve_job") =>
                /\ (job_id'[d] = NoJob) <=> (\A j \in DOMAIN jobs :
                        ~(PendingDue(j) /\ ~Covered(jobs[j].type)))
                /\ job_id'[d] # NoJob =>
                        /\ jobs[job_id'[d]].status = "pending"
                        /\ \A e \in Dispatchers \ {d} : job_id'[d] # job_id'[e]
                                \/ pc'[e] # "start_job"]_vars

\* Two callers raced for the one job: one holds it, the other got None.
C1_Witness ==
    \E d, e \in Dispatchers :
        /\ d # e /\ Len(jobs) = 1
        /\ pc[d] = "start_job" /\ job_id[d] = 1
        /\ pc[e] = "sleep" /\ job_id[e] = NoJob

\* C2: suppression blocks reservation, not enqueue.  schedule_job stores a
\* pending job also while its type is suppressed; reserve_job does not return
\* such a job while a window of its type covers now, and returns None only
\* if every such job that is pending and due is still covered; the job stays
\* the row it was.
C2_SuppressionDefersOnly ==
    [][/\ last'.op = "schedule_job" =>
            /\ Len(jobs') = Len(jobs) + 1
            /\ last'.id = Len(jobs')
            /\ jobs'[last'.id].status = "pending"
            /\ Covered(jobs'[last'.id].type) <=> last'.id \in enq_suppressed'
       /\ (last'.op = "reserve_job" /\ last'.id \in enq_suppressed) =>
            ~Covered(jobs[last'.id].type)
       /\ (last'.op = "reserve_job" /\ last'.id = NoJob) =>
            \A j \in enq_suppressed : PendingDue(j) => Covered(jobs[j].type)
       /\ \A j \in enq_suppressed :
            /\ j \in DOMAIN jobs /\ j \in DOMAIN jobs'
            /\ jobs'[j].type = jobs[j].type
            /\ jobs'[j].scheduled_at = jobs[j].scheduled_at]_vars

\* The only job ever enqueued was enqueued while suppressed and has now been
\* returned by reserve_job.
C2_Witness ==
    /\ Len(jobs) = 1
    /\ 1 \in enq_suppressed
    /\ last.op = "reserve_job" /\ last.id = 1
    /\ jobs[1].status = "reserved"

\* C3: a job's status only moves pending -> reserved -> done.  No step moves
\* it any other way, new rows are pending, and a done job has a runner that
\* got past mark_job_done.
C3_StatusForwardOnly ==
    /\ [][/\ \A j \in DOMAIN jobs :
                /\ j \in DOMAIN jobs'
                /\ \/ jobs'[j].status = jobs[j].status
                   \/ jobs[j].status = "pending" /\ jobs'[j].status = "reserved"
                   \/ jobs[j].status = "reserved" /\ jobs'[j].status = "done"
          /\ \A j \in DOMAIN jobs' \ DOMAIN jobs : jobs'[j].status = "pending"]_vars
    /\ [](\A j \in DOMAIN jobs : jobs[j].status = "done" =>
            \E i \in runners(j) :
                \/ processes[i].pc \in {"notify_end", "repost", "finished"}
                \/ processes[i].raised = "notify_end")

\* A job has gone all the way: done, its runner finished.
C3_Witness ==
    \E i \in DOMAIN processes :
        processes[i].pc = "finished" /\ Job(i).status = "done"

\* C4: schedule_job with delay d stores scheduled_at = now + d, and every
\* job reserve_job returns was pending, due and of a type no window covered.
C4_ScheduledAtRespected ==
    [][/\ last'.op = "schedule_job" =>
            /\ last'.id = Len(jobs) + 1
            /\ last'.id \in DOMAIN jobs'
            /\ jobs'[last'.id].scheduled_at = now + last'.arg
       /\ (last'.op = "reserve_job" /\ last'.id # NoJob) =>
            /\ last'.id \in DOMAIN jobs
            /\ jobs[last'.id].status = "pending"
            /\ jobs[last'.id].scheduled_at <= now
            /\ ~Covered(jobs[last'.id].type)]_vars

\* reserve_job has just returned None because the only unsuppressed pending
\* job is not due yet.
C4_Witness ==
    /\ last.op = "reserve_job" /\ last.id = NoJob
    /\ \E j \in DOMAIN jobs :
        /\ jobs[j].status = "pending"
        /\ jobs[j].scheduled_at > now
        /\ ~Covered(jobs[j].type)

C6_BlockedIffCovered ==
    [][last'.op = "reserve_job" =>
        /\ last'.id # NoJob => ~Covered(jobs[last'.id].type)
        /\ last'.id = NoJob =>
                \A j \in DOMAIN jobs : PendingDue(j) => Covered(jobs[j].type)]_vars

\* reserve_job has just returned None for a due job that two overlapping
\* windows of its type cover, one of them starting now.
C6_Witness ==
    /\ last.op = "reserve_job" /\ last.id = NoJob
    /\ \E j \in DOMAIN jobs, s1, s2 \in suppressions :
        /\ PendingDue(j)
        /\ s1 # s2
        /\ s1.job_type = jobs[j].type /\ s2.job_type = jobs[j].type
        /\ s1.start_at <= now /\ now <= s1.end_at
        /\ s2.start_at = now /\ now <= s2.end_at

\* C7: remove_expired_suppressions deletes exactly the rows with end_at <
\* now, and a second call at the same moment would change nothing.
C7_CleanupExact ==
    [][last'.op = "remove_expired_suppressions" =>
        /\ suppressions' = {s \in suppressions : s.end_at >= now}
        /\ jobs' = jobs
        /\ remove_expired_suppressions(suppressions', now) = suppressions']_vars

\* A cleanup has just deleted an expired row and kept a row that is active.
C7_Witness ==
    /\ last.op = "remove_expired_suppressions" /\ last.arg >= 1
    /\ \E s \in suppressions : s.start_at <= now /\ now <= s.end_at

\* C8: cleanup may race with reservation.  No step reserves a job while a
\* window of its type covers now, and the jobs reserve_job may claim are the
\* same whether or not the cleanup has run.
C8_CleanupRaceSafe ==
    /\ [](eligible_jobs(jobs, remove_expired_suppressions(suppressions, now), now)
            = eligible_jobs(jobs, suppressions, now))
    /\ [][\A j \in DOMAIN jobs :
            (jobs[j].status = "pending" /\ jobs'[j].status = "reserved") =>
                /\ ~Covered(jobs[j].type)
                /\ suppressions' = suppressions]_vars

\* One dispatcher holds a job it reserved while an expired window of the
\* job's type was still in the table, and the other is about to clean up.
C8_Witness ==
    \E d, e \in Dispatchers :
        /\ d # e
        /\ pc[d] = "start_job" /\ pc[e] = "run_once"
        /\ \E s \in suppressions :
            s.job_type = jobs[job_id[d]].type /\ s.end_at < now

\* C9: mark_job_done is idempotent.  It moves a reserved job to done; called
\* again it changes nothing; a done job stays done and is not eligible.
C9_MarkDoneIdempotent ==
    /\ [][last'.op = "mark_job_done" =>
            /\ jobs[last'.id].status = "reserved" =>
                    jobs' = [jobs EXCEPT ![last'.id].status = "done"]
            /\ jobs[last'.id].status = "done" => jobs' = jobs
            /\ mark_job_done(jobs', last'.id) = jobs'
            /\ suppressions' = suppressions]_vars
    /\ [][\A j \in DOMAIN jobs :
            jobs[j].status = "done" => jobs'[j].status = "done"]_vars

\* mark_job_done has just been called on a job that was done already.
C9_Witness ==
    /\ last.op = "mark_job_done" /\ last.arg = 1
    /\ jobs[last.id].status = "done"

\* C10: the runner marks the job done before the completion notification.
\* While a process is in notify_end (posting, or reposting to tech support),
\* after it, or ended by an exception raised there, its job is done, is not
\* eligible and is held by nobody else; and a job is done only once its
\* command has exited.
C10_DoneBeforeNotifyEnd ==
    \A i \in DOMAIN processes :
        /\ (processes[i].pc \in {"notify_end", "repost", "finished"}
                \/ processes[i].raised = "notify_end") =>
                    /\ Job(i).status = "done"
                    /\ processes[i].job \notin eligible_jobs(jobs, suppressions, now)
                    /\ holders(processes[i].job) = {}
                    /\ runners(processes[i].job) = {i}
        /\ Job(i).status = "done" => processes[i].rc \in ExitCodes

\* The completion notification of a failed job raised, and the job is done.
C10_Witness ==
    \E i \in DOMAIN processes :
        /\ processes[i].pc = "crashed" /\ processes[i].raised = "notify_end"
        /\ processes[i].rc # 0
        /\ Job(i).status = "done"

\* The events of process i, and those among them that are notifications of
\* the job's outcome.
Events(i) == processes[i].events

IsStartNotice(e) == e.op = "notify_slack" /\ e.msg = "about to start"

IsCompletionNotice(e) == e.op = "notify_slack" /\ e.to = "job channel"

IsRepost(e) == e.op = "chat_postMessage" /\ e.to = "tech-support"

IsCommand(e) == e.op = "run_command"

\* The process has left do_job, by returning or by an exception.
Terminated(i) == processes[i].pc \in {"finished", "crashed"}

\* C11: within a job the start notification comes first, then the command,
\* then the completion notification, then the repost to tech support.  The
\* command never runs before notify_slack was called for the start, no
\* completion notification is sent before the command has run, and a repost
\* directly follows the completion notification.
C11_NotificationOrder ==
    \A i \in DOMAIN processes :
        /\ \A k \in DOMAIN Events(i) :
            /\ IsStartNotice(Events(i)[k]) <=> k = 1
            /\ IsCommand(Events(i)[k]) <=> k = 2
            /\ IsCompletionNotice(Events(i)[k]) <=> k = 3
            /\ IsRepost(Events(i)[k]) <=> k = 4
        /\ processes[i].pc = "run_command" => Len(Events(i)) = 1
        /\ processes[i].pc \in {"mark_job_done", "notify_end", "repost", "finished"}
                => Len(Events(i)) >= 2

\* A failed job has been through all four: start notice, command, failure
\* message, repost.
C11_Witness ==
    \E i \in DOMAIN processes :
        /\ processes[i].pc = "finished"
        /\ Len(Events(i)) = 4

\* The command of process i has run: rc and the artifacts are set.
Ran(i) == Len(Events(i)) >= 2

\* notify_end of process i is over, by a return or by an exception.
Reported(i) ==
    processes[i].pc \in {"repost", "finished"} \/ processes[i].raised = "notify_end"

IsFailureMessage(e) ==
    IsCompletionNotice(e) /\ e.msg \in {"failed", "failed, calling tech-support"}

\* C12: exit-code fidelity.  The completion message is the failure message
\* exactly when the exit code is not 0.  Every job that did not exit 0 gets
\* the failure message, which names the job's type and, under HOST_LOGS_DIR,
\* the directory the command of this run wrote its artifacts to, and the
\* stderr artifact is there.
C12_ExitCodeFidelity ==
    \A i \in DOMAIN processes :
        /\ \A k \in DOMAIN Events(i) :
            IsCompletionNotice(Events(i)[k]) =>
                /\ IsFailureMessage(Events(i)[k]) <=> processes[i].rc # 0
                /\ IsFailureMessage(Events(i)[k]) =>
                    /\ Events(i)[k].type = Job(i).type
                    /\ Events(i)[k].dir =
                            job_log_path("HOST_LOGS_DIR", Job(i).type,
                                         Events(i)[2].dir.timestamp)
                    /\ Events(i)[2].dir = processes[i].log_dir
                    /\ Events(i)[2].dir.root = "LOGS_DIR"
                    /\ processes[i].stderr \in {"output", "traceback"}
        /\ (Reported(i) /\ processes[i].rc # 0) =>
                /\ Len(Events(i)) >= 3
                /\ IsFailureMessage(Events(i)[3])

\* A command has exited with a code that is not 0 (a missing executable makes
\* the shell do so) and its failure has been reported.
C12_Witness ==
    \E i \in DOMAIN processes :
        /\ processes[i].pc = "finished"
        /\ processes[i].rc = 1
        /\ processes[i].stderr = "output"
        /\ IsFailureMessage(Events(i)[3])

\* C13: run_command does not raise when subprocess.run does.  The traceback
\* is in the stderr artifact, the exit code is -1, do_job goes on to mark the
\* job done, and notify_end reports the failure as it reports any other.
C13_InvocationErrorIsFailure ==
    \A i \in DOMAIN processes :
        /\ processes[i].raised # "run_command"
        /\ processes[i].stderr = "traceback" <=> (Ran(i) /\ processes[i].rc = -1)
        /\ (Ran(i) /\ processes[i].rc = -1) =>
            /\ processes[i].pc # "crashed" \/ processes[i].raised = "notify_end"
            /\ processes[i].pc \in {"notify_end", "repost", "finished", "crashed"}
                    => Job(i).status = "done"
            /\ Reported(i) =>
                /\ Len(Events(i)) >= 3
                /\ Events(i)[3].msg = notify_end_failure_msg(i).msg
                /\ Events(i)[3].dir = notify_end_failure_msg(i).dir
                /\ Events(i)[3].fmt = "text"
                /\ IsFailureMessage(Events(i)[3])

\* subprocess.run raised and the job has been marked done and reported as
\* failed.
C13_Witness ==
    \E i \in DOMAIN processes :
        /\ processes[i].pc = "finished"
        /\ processes[i].rc = -1
        /\ processes[i].stderr = "traceback"
        /\ Job(i).status = "done"
        /\ IsFailureMessage(Events(i)[3])

\* C14: escalation gating.  Once do_job has ended for a job that did not exit
\* 0, the notifications it has sent (handed to Slack, whether or not Slack
\* took them) after the command are the failure message and the repost to
\* tech support when call_tech_support_on_error is set and the job is not in
\* a direct message, and the failure message alone otherwise.
C14_EscalationGating ==
    \A i \in DOMAIN processes :
        (Terminated(i) /\ Ran(i) /\ processes[i].rc # 0) =>
            /\ Len(Events(i)) >= 3
            /\ IsFailureMessage(Events(i)[3])
            /\ IF job_config(Job(i).type).call_tech_support_on_error /\ ~Job(i).is_im
               THEN Len(Events(i)) = 4 /\ IsRepost(Events(i)[4])
               ELSE Len(Events(i)) = 3

\* C15: notification resilience.  notify_slack makes at most
\* MaxNotifyAttempts attempts and never raises; when no notification of a job
\* gets through, the command has still run and the job is done once do_job
\* has ended; and every process that runs do_job leaves it.
C15_NotificationResilience ==
    /\ [](\A i \in DOMAIN processes :
            /\ processes[i].attempts < MaxNotifyAttempts
            /\ \A k \in DOMAIN Events(i) :
                Events(i)[k].op = "notify_slack" =>
                    Events(i)[k].n \in 1..MaxNotifyAttempts
            /\ processes[i].raised # "notify_start"
            /\ (/\ Terminated(i)
                /\ processes[i].raised \notin {"set_up_cwd", "set_up_log_dir"}
                /\ \A k \in DOMAIN Events(i) :
                        Events(i)[k].op = "notify_slack" => ~Events(i)[k].ok) =>
                    /\ Ran(i)
                    /\ Job(i).status = "done")
    /\ (Len(processes) >= 1) ~> (Len(processes) >= 1 /\ Terminated(1))

\* do_job has ended for a job whose start and completion notifications both
\* failed at every attempt.
C15_Witness ==
    \E i \in DOMAIN processes :
        /\ Terminated(i)
        /\ Len(Events(i)) = 3
        /\ ~Events(i)[1].ok /\ Events(i)[1].n = MaxNotifyAttempts
        /\ ~Events(i)[3].ok /\ Events(i)[3].n = MaxNotifyAttempts
        /\ Job(i).status = "done"

\* The messages notify_end posts for a job that exited 0.
SuccessMessages == {"stdout", "No output found", "succeeded"}

\* C16: no silent outcome.  Once do_job has ended for a job whose command
\* finished, a completion notification has been sent to the job's channel:
\* the failure message when the exit code is not 0, the stdout report or the
\* success message when it is 0; nothing is sent only for an exit code 0 with
\* report_stdout and report_success both false.
C16_NoSilentOutcome ==
    \A i \in DOMAIN processes :
        (Terminated(i) /\ Ran(i)) =>
            IF /\ processes[i].rc = 0
               /\ ~job_config(Job(i).type).report_stdout
               /\ ~job_config(Job(i).type).report_success
            THEN Len(Events(i)) = 2
            ELSE /\ Len(Events(i)) >= 3
                 /\ IsCompletionNotice(Events(i)[3])
                 /\ IF processes[i].rc = 0
                    THEN Events(i)[3].msg \in SuccessMessages
                    ELSE IsFailureMessage(Events(i)[3])

C19_NoOutputMessage ==
    \A i \in DOMAIN processes :
        (/\ Reported(i)
         /\ processes[i].rc = 0
         /\ job_config(Job(i).type).report_stdout
         /\ processes[i].stdout = "") =>
            /\ processes[i].pc = "finished"
            /\ Len(Events(i)) = 3
            /\ IsCompletionNotice(Events(i)[3])
            /\ Events(i)[3].msg = "No output found"

\* The elements of a sequence.
Range(seq) == {seq[k] : k \in DOMAIN seq}

\* C17: nothing in the handling of a reserved job raises out of run_once.
\* Whatever the type and the arguments of the job that reserve_job returned,
\* the dispatcher is never stopped by an exception, and at the end of a cycle
\* every job that has been reserved has a process.
C17_NothingRaisesIntoLoop ==
    \A d \in Dispatchers :
        /\ pc[d] # "raised"
        /\ pc[d] = "sleep" =>
                \A j \in DOMAIN jobs :
                    jobs[j].status # "pending" => runners(j) # {}

C22_LogPathsDistinct ==
    \A i, j \in DOMAIN processes :
        (/\ i # j
         /\ ~Terminated(i) /\ ~Terminated(j)
         /\ processes[i].log_dir # NoDir /\ processes[j].log_dir # NoDir) =>
            processes[i].log_dir # processes[j].log_dir

\* C24: suppression only prevents future reservation.  A step that changes
\* the suppression table once jobs are queued changes no job and no runner; the job of a runner is
\* never pending again; a runner that has not ended has its next step whether
\* or not a window covers its job's type, and when it has ended after its
\* set-up the command has run, the job is done and the outcome has been
\* reported as the configuration asks; and the only jobs held back are
\* pending ones: no job is reserved while a window covers its type.
C24_SuppressionSparesStartedJobs ==
    /\ [][(jobs # <<>> /\ suppressions' # suppressions) =>
            (jobs' = jobs /\ processes' = processes)]_vars
    /\ [][\A j \in DOMAIN jobs :
            (jobs[j].status = "pending" /\ jobs'[j].status # "pending") =>
                ~Covered(jobs[j].type)]_vars
    /\ [](\A i \in DOMAIN processes :
            /\ Job(i).status \in {"reserved", "done"}
            /\ ~Terminated(i) => ENABLED do_job(i)
            /\ (Terminated(i)
                    /\ processes[i].raised \notin {"set_up_cwd", "set_up_log_dir"}) =>
                        /\ Ran(i)
                        /\ Job(i).status = "done"
                        /\ ~notify_end_returns(i) =>
                                /\ Len(Events(i)) >= 3
                                /\ IsCompletionNotice(Events(i)[3]))

\* A window covers the type of a job that was reserved before the window was
\* there: its command has run, it is done and its failure has been reported,
\* while the job of the type that was suppressed from the start is pending.
C24_Witness ==
    \E i \in DOMAIN processes, j \in DOMAIN jobs :
        /\ Covered(Job(i).type)
        /\ processes[i].pc = "finished"
        /\ processes[i].rc # 0
        /\ Job(i).status = "done"
        /\ IsFailureMessage(Events(i)[3])
        /\ jobs[j].status = "pending" /\ Covered(jobs[j].type)

\* C23 as the specification words it: the "about to start" notification of a
\* job goes to the job's own destination, the channel and the thread recorded
\* on the job.
C23_StartNoticeToJobDestination ==
    \A i \in DOMAIN processes :
        \A k \in DOMAIN Events(i) :
            IsStartNotice(Events(i)[k]) =>
                /\ Events(i)[k].to = Job(i).channel
                /\ Events(i)[k].thread = Job(i).thread_ts

\* C23, amended: before the command starts, notify_slack has been called
\* with the "about to start" message of the job's type for the logs channel,
\* outside any thread, whatever the destination recorded on the job.
C23_StartNoticeToLogsChannel ==
    \A i \in DOMAIN processes :
        /\ \A k \in DOMAIN Events(i) :
            IsStartNotice(Events(i)[k]) =>
                /\ k = 1
                /\ Events(i)[k].to = "logs"
                /\ Events(i)[k].thread = NoThread
                /\ Events(i)[k].type = Job(i).type
        /\ (processes[i].pc = "run_command" \/ Ran(i)) =>
                /\ Len(Events(i)) >= 1
                /\ IsStartNotice(Events(i)[1])

\* The start notice of a job requested in a thread of its channel has been
\* posted, and the command is about to run.
C23_Witness ==
    \E i \in DOMAIN processes :
        /\ processes[i].pc = "run_command"
        /\ Job(i).channel = "job channel" /\ Job(i).thread_ts = TS
        /\ IsStartNotice(Events(i)[1]) /\ Events(i)[1].ok

\* C30: a failure message is posted as plain text whatever the report_format
\* of the job's configuration, and what it says is settled by the job's type,
\* its escalation and the log directory alone: it is the same whether or not
\* the command wrote to the stdout artifact.
C30_FailureMessageIsText ==
    \A i \in DOMAIN processes :
        /\ \A k \in DOMAIN Events(i) :
            IsFailureMessage(Events(i)[k]) =>
                /\ Events(i)[k].fmt = "text"
                /\ Events(i)[k].msg =
                        IF job_config(Job(i).type).call_tech_support_on_error
                                /\ ~Job(i).is_im
                        THEN "failed, calling tech-support" ELSE "failed"
                /\ Events(i)[k].type = Job(i).type
                /\ Events(i)[k].dir = host_log_dir(i)
        /\ (Reported(i) /\ processes[i].rc # 0) =>
                /\ Len(Events(i)) >= 3
                /\ IsFailureMessage(Events(i)[3])
                /\ Events(i)[3].fmt = "text"

\* A job that reports in blocks has failed after writing to stdout, and its
\* failure message has been posted.
C30_Witness ==
    \E i \in DOMAIN processes :
        /\ Reported(i)
        /\ processes[i].rc = 1
        /\ processes[i].stdout = "output"
        /\ job_config(Job(i).type).report_format = "blocks"
        /\ IsFailureMessage(Events(i)[3])

\* C25: for every message returned by the search, the message is reacted to
\* once and reposted once when the keyword stands in its text outside any link,
\* and is neither reacted to nor reposted when the keyword stands only inside
\* links or nowhere.  Stated of the message check_messages has just been at.
Times_in(seq, x) == Cardinality({k \in DOMAIN seq : seq[k] = x})

KeywordOutsideUrls(text) == \E k \in DOMAIN text : text[k] = "K"

C25_ReactsIffKeywordOutsideUrls ==
    checker.ts > 0 =>
        LET expected == IF KeywordOutsideUrls(checker.text) THEN 1 ELSE 0
        IN  /\ Times_in(checker.reactions, checker.ts) = expected
            /\ Times_in(checker.posts, checker.ts) = expected

\* How sh reads a command line: the words it splits the line into, and whether
\* it met an operator (; <), an expansion ($) or a quote left open.
\* st is [mode, word, inword, words, special]; mode is "plain", "single" or
\* "double".
sh_end_word(st) ==
    [st EXCEPT !.word = <<>>, !.inword = FALSE,
               !.words = IF st.inword THEN Append(st.words, st.word)
                         ELSE st.words]

RECURSIVE sh_read(_, _)
sh_read(line, st) ==
    IF line = <<>>
    THEN [words |-> sh_end_word(st).words,
          special |-> st.special \/ st.mode # "plain"]
    ELSE LET ch == Head(line)
             rest == Tail(line)
             literal(x) == [st EXCEPT !.word = Append(st.word, x),
                                      !.inword = TRUE]
         IN  CASE st.mode = "single" ->
                    IF ch = "'" THEN sh_read(rest, [st EXCEPT !.mode = "plain"])
                    ELSE sh_read(rest, literal(ch))
               [] st.mode = "double" ->
                    IF ch = "\"" THEN sh_read(rest, [st EXCEPT !.mode = "plain"])
                    ELSE IF ch = "$"
                    THEN sh_read(rest, [st EXCEPT !.special = TRUE])
                    ELSE IF ch = "\\" /\ rest # <<>>
                            /\ Head(rest) \in {"$", "\"", "\\"}
                    THEN sh_read(Tail(rest), literal(Head(rest)))
                    ELSE sh_read(rest, literal(ch))
               [] OTHER ->
                    IF ch = " " THEN sh_read(rest, sh_end_word(st))
                    ELSE IF ch \in {";", "<"}
                    THEN sh_read(rest, [sh_end_word(st) EXCEPT !.special = TRUE])
                    ELSE IF ch = "$"
                    THEN sh_read(rest, [st EXCEPT !.special = TRUE])
                    ELSE IF ch = "'"
                    THEN sh_read(rest, [st EXCEPT !.mode = "single",
                                                  !.inword = TRUE])
                    ELSE IF ch = "\""
                    THEN sh_read(rest, [st EXCEPT !.mode = "double",
                                                  !.inword = TRUE])
                    ELSE IF ch = "\\"
                    THEN IF rest = <<>>
                         THEN sh_read(rest, [st EXCEPT !.special = TRUE])
                         ELSE sh_read(Tail(rest), literal(Head(rest)))
                    ELSE sh_read(rest, literal(ch))

sh_words(line) ==
    sh_read(line, [mode |-> "plain", word |-> <<>>, inword |-> FALSE,
                   words |-> <<>>, special |-> FALSE])

\* C26: whatever the argument value holds, the shell reads the formatted
\* command line as the template's command followed by the value as one literal
\* word: no operator, no expansion, no further word or command.
C26_ValueIsOneLiteralWord ==
    run_args.line # <<>> =>
        sh_words(run_args.line) =
            [words |-> <<(<<"c", "a", "t">>), run_args.value>>,
             special |-> FALSE]

\* A value with a quote, an operator and a space has been formatted.
C26_Witness ==
    /\ run_args.line # <<>>
    /\ {"'", ";", " "} \subseteq Range(run_args.value)

\* The step is the handling of one webhook request; the request and its
\* response are in web'.
WebhookStep == web'.n = web.n + 1

\* The request handled carries the signature of its own body.
ValidlySigned == web'.header = "sha1=hmac"

\* The body handled is a pull_request event with action closed and merged true.
MergedPr ==
    /\ Payload(web'.data).action = "closed"
    /\ Payload(web'.data).pull_request = "merged"

\* C27: a validly signed webhook for a project that has a deploy job enqueues
\* a job iff its payload is a closed, merged pull request: then exactly the one
\* job <project>_deploy, with no args, for the project's default channel, due
\* 60 seconds from now, whether or not deploys are suppressed; any other
\* payload leaves the job table as it was.
C27_DeployIffMergedPr ==
    [][(WebhookStep /\ ValidlySigned /\ deploy_job(web'.project) \in ConfigJobs)
        => IF MergedPr
           THEN jobs' = Append(jobs,
                    [type |-> deploy_job(web'.project), args |-> {},
                     channel |-> default_channel[web'.project],
                     thread_ts |-> "", is_im |-> FALSE,
                     scheduled_at |-> now + 60, status |-> "pending"])
           ELSE jobs' = jobs]_vars

\* A merged pull request of project test has been answered 200 and its deploy
\* job stands in the table, due in 60 seconds, while deploys are suppressed.
C27_Witness ==
    /\ web.status = 200
    /\ web.project = "test"
    /\ web.data = "PAYLOAD_PR_CLOSED"
    /\ Covered("test_deploy")
    /\ jobs # <<>>
    /\ jobs[Len(jobs)].type = "test_deploy"
    /\ jobs[Len(jobs)].scheduled_at = now + 60

\* C28: a request whose signature header is missing, malformed or invalid is
\* answered 403, and a validly signed merged pull request for a project
\* without a deploy job is answered 400; either way the job table and the
\* suppressions stay as they were and no message is posted.
C28_RejectedWebhookChangesNothing ==
    [][WebhookStep =>
        /\ ~ValidlySigned =>
              /\ web'.status = 403
              /\ jobs' = jobs /\ suppressions' = suppressions
              /\ web'.posted = <<>>
        /\ (ValidlySigned /\ MergedPr
                /\ deploy_job(web'.project) \notin ConfigJobs) =>
              /\ web'.status = 400
              /\ jobs' = jobs /\ suppressions' = suppressions
              /\ web'.posted = <<>>]_vars

\* A forged merged pull request for project test has been answered 403 after
\* an earlier request, with nothing enqueued.
C28_Witness ==
    /\ web.n = 2
    /\ web.status = 403
    /\ web.header = "sha1=abcdef"
    /\ web.project = "test"
    /\ web.data = "PAYLOAD_PR_CLOSED"
    /\ jobs = <<>>

\* C29: on a merged pull request that is taken for deployment, the notice
\* "deploys suppressed until <end>" is posted to the project's channel iff a
\* window of <project>_deploy covers now, <end> being the end of such a window;
\* otherwise nothing is posted.
C29_NoticeIffDeploysSuppressed ==
    [][(WebhookStep /\ web'.status = 200 /\ MergedPr) =>
        IF Covered(deploy_job(web'.project))
        THEN \E s \in suppressions :
                /\ s.job_type = deploy_job(web'.project)
                /\ s.start_at <= now /\ now <= s.end_at
                /\ web'.posted = <<[to |-> default_channel[web'.project],
                                    text |-> "deploys suppressed until",
                                    end_at |-> s.end_at]>>
        ELSE web'.posted = <<>>]_vars

\* The step asks run_fn; the step makes a search.
AsksRunFn == watcher'.answers # watcher.answers
Searches == watcher'.searches # watcher.searches

\* C31: do_check runs one cycle for each True of run_fn and returns at the
\* first False; each cycle makes one search per configured keyword, in the
\* order of the config, for the messages after the date two days before the
\* cycle's today; a search without matches adds no reaction and reposts
\* nothing.
C31_OneSearchPerKeywordPerCycle ==
    /\ [](LET answers == watcher.answers
              searches == watcher.searches
          IN  \* every answer but the last was True, and False ended do_check
              /\ \A c \in DOMAIN answers : c < Len(answers) => answers[c]
              /\ (watcher.pc = "returned")
                    <=> (answers # <<>> /\ ~answers[Len(answers)])
              \* the searches are the keywords in turn, cycle after cycle
              /\ \A n \in DOMAIN searches :
                    /\ searches[n].cycle = ((n - 1) \div Len(Keywords)) + 1
                    /\ searches[n].keyword
                            = Keywords[((n - 1) % Len(Keywords)) + 1]
              /\ watcher.pc \in {"sleep", "run_fn", "returned"}
                    => Len(searches) = Len(Keywords) * Cycles(answers)
              /\ watcher.pc = "check_messages"
                    => Len(searches) = Len(Keywords) * (Cycles(answers) - 1)
                                            + watcher.k - 1
              \* no matches at all: no reaction and no repost
              /\ (\A n \in DOMAIN searches : searches[n].matches = 0)
                    => checker.reactions = <<>> /\ checker.posts = <<>>)
    /\ [][/\ (AsksRunFn /\ watcher'.pc = "check_messages")
                => watcher'.check_from = watcher.today - 2
          /\ Searches =>
                /\ Len(watcher'.searches) = Len(watcher.searches) + 1
                /\ watcher'.searches[Len(watcher'.searches)].after
                        = watcher.check_from
                /\ watcher'.searches[Len(watcher'.searches)].matches = 0
                        => checker' = checker
          /\ watcher.pc = "returned" => watcher' = watcher]_vars

\* test_message_checker_run: run_fn answered True, True, False; four searches
\* were made, none had a match, and nothing was reacted to or reposted.
C31_Witness ==
    /\ watcher.pc = "returned"
    /\ watcher.answers = <<TRUE, TRUE, FALSE>>
    /\ Len(watcher.searches) = 4
    /\ \A n \in DOMAIN watcher.searches :
            /\ watcher.searches[n].matches = 0
            /\ watcher.searches[n].after = FirstDay - 2
    /\ checker.reactions = <<>>

\* C32: every job reserved by run_once is marked done by its runner, also when
\* the set-up of the workspace or of the log directory, the refresh of the
\* fabfile or the start notification fails: no runner ends and leaves its job
\* reserved.
C32_ReservedJobsGetDone ==
    \A i \in DOMAIN processes : Terminated(i) => Job(i).status = "done"

\* C33: when a failed job is due for escalation and the failure message was
\* not delivered (notify_slack gave up and returned no message), or the
\* permalink lookup or the repost fails, do_job still ends without an
\* unhandled exception, the job stays done, and nothing is reposted to tech
\* support for a message that was never posted.
C33_FailedEscalationIsHandled ==
    \A i \in DOMAIN processes :
        (/\ Ran(i)
         /\ processes[i].rc # 0
         /\ repost_to_tech_support_on_error(i)
         /\ Reported(i)) =>
            /\ processes[i].raised # "notify_end"
            /\ Job(i).status = "done"
            /\ processes[i].slack_message = "None" =>
                    \A k \in DOMAIN Events(i) : ~IsRepost(Events(i)[k])

\* The calls check_messages made to the Slack client in this step.
NewCalls == SubSeq(checker'.calls, Len(checker.calls) + 1, Len(checker'.calls))

\* C34: in a pass of check_messages the reaction and the repost are paired
\* per message and follow the order of the search result: for a genuine match
\* (the keyword stands in the text outside any link) the reaction is added,
\* then the permalink is fetched and reposted; for any other message no call
\* is made; so the reactions added, the permalinks reposted and the genuine
\* matches seen are equal in number.
C34_ReactionThenRepostPerMatch ==
    /\ [](/\ checker.reactions = checker.posts
          /\ \A m, n \in DOMAIN checker.reactions :
                m < n => checker.reactions[m] < checker.reactions[n])
    /\ [][checker'.ts # checker.ts =>
            /\ checker'.ts = checker.ts + 1
            /\ IF KeywordOutsideUrls(checker'.text)
               THEN /\ NewCalls = <<[op |-> "reactions_add", ts |-> checker'.ts],
                                    [op |-> "chat_getPermalink", ts |-> checker'.ts],
                                    [op |-> "notify_slack", ts |-> checker'.ts]>>
                    /\ checker'.reactions = Append(checker.reactions, checker'.ts)
                    /\ checker'.posts = Append(checker.posts, checker'.ts)
               ELSE /\ NewCalls = <<>>
                    /\ checker'.reactions = checker.reactions
                    /\ checker'.posts = checker.posts]_vars

\* A step of get_latest_conclusions of the reporter of ReporterLocation.
GetsConclusions ==
    /\ reporters[ReporterLocation].pc = "ready"
    /\ reporters'[ReporterLocation].pc = "load_cache"

RunsOf(all_runs, id) == {i \in DOMAIN all_runs : all_runs[i].workflow_id = id}

C37_NoWriteIsLost ==
    \A location \in Locations :
        reporters[location].pc = "returned" =>
            /\ location \in DOMAIN cache_file
            /\ cache_file[location] = reporters[location].cache

\* A step of the command `op` of tech support out of office.
OutOfOfficeStep(op) == ooo'.call.n # ooo.call.n /\ ooo'.call.op = op

OutOfOfficeErrors ==
    {"Error: start date must be before end date",
     "Error: Can't set out of office in the past"}

\* C38: out_of_office_on answers a range that starts after its end, or ends
\* before today, with an error message and leaves the stored configuration
\* as it was; any other range of valid dates is stored as given, in place of
\* what was stored.
C38_OnRejectsOrStores ==
    [][(OutOfOfficeStep("on") /\ ooo'.call.answer # "ValueError") =>
        LET start == convert_date(ooo'.call.start_date)
            end == convert_date(ooo'.call.end_date)
            rejected == /\ ooo'.call.answer \in OutOfOfficeErrors
                        /\ ooo'.config = ooo.config
            stored == /\ ooo'.call.answer \notin OutOfOfficeErrors
                      /\ ooo'.config = [start |-> ooo'.call.start_date,
                                        end |-> ooo'.call.end_date]
        IN  /\ rejected \/ stored
            /\ (start > end \/ end < ooo.today) => rejected
            /\ (start <= end /\ end >= ooo'.today) => stored]_vars

\* A range in the past was refused while a configuration was stored.
C38_Witness ==
    /\ ooo.call.op = "on"
    /\ ooo.call.answer = "Error: Can't set out of office in the past"
    /\ ooo.config # <<>>

\* C39: out_of_office_status reports ON exactly when a configuration is
\* stored and its start <= today <= its end, and its assertion never fails;
\* it reports OFF when nothing is stored and when the stored range is in the
\* past or in the future; out_of_office_off leaves nothing stored, however
\* often it is called.
C39_StatusTellsWhetherOn ==
    /\ [](ooo.call.answer # "AssertionError")
    /\ [][OutOfOfficeStep("status") =>
            LET dates == get_dates_from_config
                on == ooo'.call.answer = "Tech support out of office is currently ON until"
            IN  /\ on => /\ dates # <<>>
                         /\ \E day \in ooo.today..ooo'.today :
                                dates.start <= day /\ day <= dates.end
                /\ (dates # <<>> /\ dates.start <= ooo.today /\ ooo'.today <= dates.end) => on]_vars
    /\ [][OutOfOfficeStep("off") => ooo'.config = <<>>]_vars

====
